---- MODULE Spec2Model ----
(***************************************************************************)
(* Convex Tools extension: the OAuth device-code client of                 *)
(* src/extensions/convex/src/run-function.tsx (discovery, device           *)
(* authorization, token polling, exchange, session and selected-context    *)
(* storage), the log poller behind the View Logs command of                *)
(* src/extensions/convex/src/view-logs.tsx, and the screens Browse Tables  *)
(* (browse-tables.tsx), FunctionRunner with its ArgumentsForm              *)
(* (run-function.tsx) and Switch Project (switch-project.tsx).  Each part  *)
(* has its own variables and its own specification; the steps of one part  *)
(* leave the variables of the others unchanged.                            *)
(*                                                                         *)
(* Conventions.  A JavaScript optional value (undefined / null or a value) *)
(* is a set with at most one element: None is {} and Some(v) is {v}.       *)
(* Times are milliseconds on a clock whose origin is the start of the      *)
(* behaviour.  A decimal string, as written by Number.toString, is the     *)
(* sequence of its digit characters; every other string is a TLA+ string.  *)
(* LocalStorage is a function from the keys that are present to values.    *)
(***************************************************************************)
EXTENDS Integers, Sequences, FiniteSets

VARIABLES
    now,            \* Date.now()
    store,          \* LocalStorage: present keys |-> stored strings
    pc,             \* position of the running async operation, "idle" when none
    caller,         \* who runs pollForDeviceToken: "authenticate" | "direct" | "none"
    auth,           \* DeviceAuthResponse of the attempt (Some / None)
    shouldStop,     \* the shouldStop argument: "absent" | "false" | "true"
    pollInterval,   \* const pollInterval of pollForDeviceToken
    pollExpiresAt,  \* const expiresAt of pollForDeviceToken (the deadline)
    script,         \* what the token endpoint will answer, request by request
    events,         \* network requests, responses, sleeps and writes of the operation
    pollRet,        \* how pollForDeviceToken ended
    authRet,        \* how authenticate ended
    toast,          \* the toast of authenticate
    session,        \* const session of authenticate (Some / None)
    storeBefore,    \* the store when the running / last operation started
    opRet           \* the last storage-level call and what it returned

VARIABLES
    logs,           \* the log buffer of the poller, newest entry first
    isStreaming,    \* the streaming flag
    started,        \* start() was called: a polling session is open
    timer,          \* the poller's timer: "scheduled" while a tick is pending
    inflight,       \* the log fetches in flight, in the order they were issued
    produced,       \* how many log entries the deployment has produced
    fetchError,     \* the error of the last failed fetch, as shown to the caller
    awaiters,       \* who awaits each fetch in flight: "none" | "action" | "plain"
    logToast,       \* the toast of the Refresh Logs action
    logOp           \* the last step of the poller and what it found and did

authVars == <<now, store, pc, caller, auth, shouldStop, pollInterval, pollExpiresAt,
              script, events, pollRet, authRet, toast, session, storeBefore, opRet>>

logVars == <<logs, isStreaming, started, timer, inflight, produced, fetchError,
             awaiters, logToast, logOp>>

VARIABLES
    viewState,        \* Browse Tables: "tables" | "documents"
    selectedTable,    \* the selected table (Some / None)
    documents,        \* the documents listed, in the order they were set
    documentsLoading, \* the loading flag of the document list
    nextCursor,       \* the cursor of the next page (Some / None)
    docFetches,       \* the getDocuments calls in flight
    browseToast,      \* the toast of the Browse Tables screen
    selections,       \* how many times a table was selected
    loadMores         \* how many times loadMore sent a request

browseVars == <<viewState, selectedTable, documents, documentsLoading, nextCursor,
                docFetches, browseToast, selections, loadMores>>

VARIABLES
    runResult,        \* FunctionRunner: const result, of the last run (Some / None)
    runError,         \* const error, the message of the last run (Some / None)
    isRunning,        \* the running flag
    executions,       \* the executeFunction calls that have not finished
    runToast,         \* the toast of executeFunction
    runs,             \* how many times executeFunction was called
    formShown,        \* the ArgumentsForm is pushed on top of the runner
    argsJson,         \* ArgumentsForm: the text of the Arguments field
    parseError,       \* the error shown under the field (Some / None)
    formOp            \* the last step of the form and what it did

runnerVars == <<runResult, runError, isRunning, executions, runToast, runs,
                formShown, argsJson, parseError, formOp>>

VARIABLES
    switchViewState,  \* Switch Project: viewState, "teams" | "projects" | "deployments"
    selectedTeam,     \* the id of the selected team (Some / None)
    selectedProject,  \* the id of the selected project (Some / None)
    selectedContext,  \* the selected context of useConvexAuth
    teams,            \* data of useTeams: the team ids (Some / None while loading)
    projects,         \* data of useProjects: the team whose projects it holds
    contextLoaded,    \* the stored context has been loaded
    switchToast,      \* the toast of the Switch Project screen
    switchOp          \* the last step of the screen and the state it found

switchVars == <<switchViewState, selectedTeam, selectedProject, selectedContext,
                teams, projects, contextLoaded, switchToast, switchOp>>

screenVars == <<browseVars, runnerVars, switchVars>>

vars == <<authVars, logVars, screenVars>>

----------------------------------------------------------------------------
(* Optional values *)

None == {}

Some(v) == {v}

IsSome(o) == o # {}

The(o) == CHOOSE v \in o : TRUE

----------------------------------------------------------------------------
(* Number.prototype.toString and parseInt(s, 10) on non-negative integers *)

Digits == <<"0", "1", "2", "3", "4", "5", "6", "7", "8", "9">>

IsDigit(c) == \E d \in 1..10 : Digits[d] = c

DigitValue(c) == (CHOOSE d \in 1..10 : Digits[d] = c) - 1

RECURSIVE ToStringRec(_)
ToStringRec(n) ==
    IF n < 10 THEN <<Digits[n + 1]>>
    ELSE Append(ToStringRec(n \div 10), Digits[(n % 10) + 1])

\* n.toString() for an integer n >= 0
ToString(n) == ToStringRec(n)

RECURSIVE ParseDigits(_, _, _)
ParseDigits(s, i, acc) ==
    IF i > Len(s) \/ ~IsDigit(s[i]) THEN acc
    ELSE ParseDigits(s, i + 1, acc * 10 + DigitValue(s[i]))

NaN == "NaN"

\* parseInt(s, 10): the longest prefix of digits, NaN when there is none
ParseInt(s) ==
    IF Len(s) = 0 \/ ~IsDigit(s[1]) THEN NaN ELSE ParseDigits(s, 1, 0)

----------------------------------------------------------------------------
(* LocalStorage *)

ACCESS_TOKEN == "convex-access-token"
TOKEN_EXPIRES_AT == "convex-token-expires-at"
REFRESH_TOKEN == "convex-refresh-token"
SELECTED_TEAM_ID == "convex-selected-team-id"
SELECTED_PROJECT_ID == "convex-selected-project-id"
SELECTED_DEPLOYMENT_NAME == "convex-selected-deployment-name"

SessionKeys == {ACCESS_TOKEN, TOKEN_EXPIRES_AT, REFRESH_TOKEN}

ContextKeys == {SELECTED_TEAM_ID, SELECTED_PROJECT_ID, SELECTED_DEPLOYMENT_NAME}

STORAGE_KEYS == SessionKeys \cup ContextKeys

EmptyStore == [k \in {} |-> ""]

\* LocalStorage.getItem(key): the value, or undefined
GetItem(st, key) == IF key \in DOMAIN st THEN Some(st[key]) ELSE None

\* LocalStorage.setItem(key, value)
SetItem(st, key, value) ==
    [k \in (DOMAIN st) \cup {key} |-> IF k = key THEN value ELSE st[k]]

\* LocalStorage.removeItem(key)
RemoveItem(st, key) == [k \in (DOMAIN st) \ {key} |-> st[k]]

\* The removals of a set of keys, in any order
RemoveItems(st, keys) == [k \in (DOMAIN st) \ keys |-> st[k]]

RECURSIVE ApplyWrites(_, _, _)
\* The first n writes of a sequence of <<key, value>> pairs
ApplyWrites(st, writes, n) ==
    IF n = 0 THEN st
    ELSE LET w == writes[n]
         IN  SetItem(ApplyWrites(st, writes, n - 1), w[1], w[2])

----------------------------------------------------------------------------
(* Truthiness of optional numbers and strings *)

TruthyNum(o) == IsSome(o) /\ The(o) # 0

TruthyStr(o) == IsSome(o) /\ The(o) # ""

TruthyDigits(o) == IsSome(o) /\ The(o) # <<>>

----------------------------------------------------------------------------
(* Session storage *)

\* The setItem calls of saveSession, in program order
SaveSessionWrites(sess) ==
    <<<<ACCESS_TOKEN, sess.accessToken>>>>
    \o (IF TruthyNum(sess.expiresAt)
        THEN <<<<TOKEN_EXPIRES_AT, ToString(The(sess.expiresAt))>>>>
        ELSE <<>>)
    \o (IF TruthyStr(sess.refreshToken)
        THEN <<<<REFRESH_TOKEN, The(sess.refreshToken)>>>>
        ELSE <<>>)

\* loadSession(): null (None) or the stored sess
LoadSession(st) ==
    LET accessToken == GetItem(st, ACCESS_TOKEN)
        expiresAtStr == GetItem(st, TOKEN_EXPIRES_AT)
        refreshToken == GetItem(st, REFRESH_TOKEN)
    IN  IF ~TruthyStr(accessToken) THEN None
        ELSE Some([accessToken  |-> The(accessToken),
                   tokenType    |-> "Bearer",
                   expiresAt    |-> IF TruthyDigits(expiresAtStr)
                                    THEN Some(ParseInt(The(expiresAtStr)))
                                    ELSE None,
                   refreshToken |-> refreshToken])

\* isSessionExpired(sess) when Date.now() is t
IsSessionExpired(sess, t) ==
    IF ~TruthyNum(sess.expiresAt) THEN FALSE
    ELSE t > The(sess.expiresAt) - 5 * 60 * 1000

\* The setItem calls of saveSelectedContext, in program order
SaveSelectedContextWrites(context) ==
    (IF TruthyNum(context.teamId)
     THEN <<<<SELECTED_TEAM_ID, ToString(The(context.teamId))>>>>
     ELSE <<>>)
    \o (IF TruthyNum(context.projectId)
        THEN <<<<SELECTED_PROJECT_ID, ToString(The(context.projectId))>>>>
        ELSE <<>>)
    \o (IF TruthyStr(context.deploymentName)
        THEN <<<<SELECTED_DEPLOYMENT_NAME, The(context.deploymentName)>>>>
        ELSE <<>>)

\* loadSelectedContext()
LoadSelectedContext(st) ==
    LET teamIdStr == GetItem(st, SELECTED_TEAM_ID)
        projectIdStr == GetItem(st, SELECTED_PROJECT_ID)
        deploymentName == GetItem(st, SELECTED_DEPLOYMENT_NAME)
    IN  [teamId         |-> IF TruthyDigits(teamIdStr)
                            THEN Some(ParseInt(The(teamIdStr))) ELSE None,
         projectId      |-> IF TruthyDigits(projectIdStr)
                            THEN Some(ParseInt(The(projectIdStr))) ELSE None,
         deploymentName |-> deploymentName]

----------------------------------------------------------------------------
(* Bounds and the inputs drawn from the environment *)

\* The clock moves in steps of TickMs while no operation runs, MaxTicks times
MaxTicks == 1

TickMs == 5 * 1000

AccessTokens == {"tokA", "tokB"}

RefreshTokens == {"refresh1"}

\* expiresAt of a session handed to saveSession / isSessionExpired
SessionExpiries == {None, Some(0), Some(300000)}

Sessions ==
    [accessToken : AccessTokens, tokenType : {"Bearer"},
     expiresAt : SessionExpiries,
     refreshToken : {None} \cup {Some(r) : r \in RefreshTokens}]

Contexts ==
    [teamId : {None, Some(0), Some(12)}, projectId : {None, Some(305)},
     deploymentName : {None, Some("dev-owl-1")}]

\* DeviceAuthResponse: interval (seconds, may be absent) and expires_in (seconds)
DeviceAuths == [interval : {None, Some(0), Some(2)}, expires_in : {0, 10, 20}]

OidcTokens == {"oidc1", "oidc2"}

\* Responses of the token endpoint
TokenOk(tok) ==
    [ok |-> TRUE, status |-> "200", body |-> "json", error |-> "", access_token |-> tok]

TokenError(err) ==
    [ok |-> FALSE, status |-> "400", body |-> "json", error |-> err, access_token |-> ""]

TokenGarbage ==
    [ok |-> FALSE, status |-> "502", body |-> "text", error |-> "", access_token |-> ""]

RetryResponses == {TokenError("authorization_pending"), TokenError("slow_down")}

FinalResponses ==
    {TokenOk(tok) : tok \in OidcTokens}
    \cup {TokenError("expired_token"), TokenError("access_denied"),
          TokenError("invalid_grant"), TokenGarbage}

\* The endpoint's answers to the first requests; it answers authorization_pending
\* to every request after them (the user never approves)
MaxScriptLen == 3

RECURSIVE RetrySeqs(_)
RetrySeqs(n) ==
    IF n = 0 THEN {<<>>}
    ELSE RetrySeqs(n - 1)
         \cup {Append(s, r) : s \in {q \in RetrySeqs(n - 1) : Len(q) = n - 1},
                              r \in RetryResponses}

Scripts ==
    RetrySeqs(MaxScriptLen)
    \cup {Append(s, r) : s \in RetrySeqs(MaxScriptLen - 1), r \in FinalResponses}

\* Time a token request takes
Latencies == {0, 1000}

\* Body of a successful /api/authorize response
ExchangeDatas ==
    [accessToken : AccessTokens, tokenType : {None, Some("bearer")},
     expiresAt : {None, Some(0), Some(300)},
     refreshToken : {None} \cup {Some(r) : r \in RefreshTokens}]

\* What the store may hold from an earlier sign-in when an attempt starts
PriorSessions ==
    {[accessToken |-> "tokOld", tokenType |-> "Bearer",
      expiresAt |-> Some(300000), refreshToken |-> Some("refreshOld")]}

----------------------------------------------------------------------------
(* JSON text, as the sequence of its tokens, and JSON.parse *)

NumberTokens == {"1", "2"}

KeyTokens == {"a", "b"}

JNumber(n) == [t |-> "number", n |-> n, members |-> <<>>]

JObject(members) == [t |-> "object", n |-> "", members |-> members]

ParseFail == [ok |-> FALSE, value |-> JObject(<<>>), rest |-> <<>>]

Parsed(value, rest) == [ok |-> TRUE, value |-> value, rest |-> rest]

RECURSIVE ParseValue(_)
RECURSIVE ParseMembers(_, _)

\* One value at the head of s: a number, {} or { members }
ParseValue(s) ==
    IF s = <<>> THEN ParseFail
    ELSE IF Head(s) \in NumberTokens THEN Parsed(JNumber(Head(s)), Tail(s))
    ELSE IF Head(s) = "{"
    THEN IF Len(s) >= 2 /\ s[2] = "}"
         THEN Parsed(JObject(<<>>), SubSeq(s, 3, Len(s)))
         ELSE ParseMembers(Tail(s), <<>>)
    ELSE ParseFail

\* key : value, then a comma and more members, or the closing brace
ParseMembers(s, acc) ==
    IF Len(s) < 3 \/ s[1] \notin KeyTokens \/ s[2] # ":" THEN ParseFail
    ELSE LET v == ParseValue(SubSeq(s, 3, Len(s)))
             members == Append(acc, [key |-> s[1], value |-> v.value])
         IN  IF ~v.ok \/ v.rest = <<>> THEN ParseFail
             ELSE IF Head(v.rest) = "}" THEN Parsed(JObject(members), Tail(v.rest))
             ELSE IF Head(v.rest) = "," THEN ParseMembers(Tail(v.rest), members)
             ELSE ParseFail

\* JSON.parse(text): the value, or None when it throws a SyntaxError
JsonParse(text) ==
    LET r == ParseValue(text)
    IN  IF r.ok /\ r.rest = <<>> THEN Some(r.value) ELSE None

\* useState("{}")
DefaultArgsJson == <<"{", "}">>

\* What the user types into the Arguments field
ArgsTexts ==
    {<<"{", "}">>,
     <<"{", "a", ":", "1", "}">>,
     <<"{", "a", ":", "1", ",", "b", ":", "{", "}", "}">>,
     <<"2">>,
     <<>>,
     <<"{", "a", ":", "1">>,
     <<"{", "a", "1", "}">>,
     <<"{", "a", ":", "1", ",", "}">>,
     <<"{", "}", "}">>}

\* executeFunction({}) of Quick Run
EmptyArgs == JObject(<<>>)

\* What formOp holds while the form has done nothing
NoFormOp == [op |-> "none", text |-> <<>>, steps |-> <<>>, executionsBefore |-> <<>>]

----------------------------------------------------------------------------
(* The Switch Project screen: what it starts from *)

\* The selected context before the stored one is loaded
NoContext == [teamId |-> None, projectId |-> None, deploymentName |-> None]

\* The screen as one render sees it
Screen(view, team, project, context, tms, projs) ==
    [viewState |-> view, selectedTeam |-> team, selectedProject |-> project,
     selectedContext |-> context, teams |-> tms, projects |-> projs]

\* What switchOp holds before the screen has done anything
NoSwitchOp ==
    [op |-> "none", team |-> None, project |-> None, deployment |-> None,
     before |-> Screen("teams", None, None, NoContext, None, None)]

----------------------------------------------------------------------------
(* State *)

NoRet == [status |-> "none", tokens |-> None, session |-> None,
          msg |-> "", detail |-> ""]

NoOp == [op |-> "none", threw |-> FALSE, arg |-> None, value |-> None, at |-> 0]

NoToast == [style |-> "none", title |-> ""]

\* What logOp holds before the poller has done anything
NoLogOp == [op |-> "none", kind |-> "", ok |-> TRUE, discarded |-> FALSE,
            result |-> <<>>, logsBefore |-> <<>>, streamingBefore |-> TRUE,
            timerBefore |-> "none", inflightBefore |-> <<>>,
            cleared |-> FALSE, afterClear |-> FALSE,
            awaiter |-> "none", toast |-> FALSE]

pollVars == <<caller, auth, shouldStop, pollInterval, pollExpiresAt, script,
              events, pollRet, authRet, toast, session>>

Init ==
    /\ now = 0
    /\ store = EmptyStore
    /\ pc = "idle"
    /\ caller = "none"
    /\ auth = None
    /\ shouldStop = "absent"
    /\ pollInterval = 0
    /\ pollExpiresAt = 0
    /\ script = <<>>
    /\ events = <<>>
    /\ pollRet = NoRet
    /\ authRet = NoRet
    /\ toast = NoToast
    /\ session = None
    /\ storeBefore = EmptyStore
    /\ opRet = NoOp
    /\ logs = <<>>
    /\ isStreaming = TRUE
    /\ started = FALSE
    /\ timer = "none"
    /\ inflight = <<>>
    /\ produced = 0
    /\ fetchError = None
    /\ awaiters = <<>>
    /\ logToast = "none"
    /\ logOp = NoLogOp
    /\ viewState = "tables"
    /\ selectedTable = None
    /\ documents = <<>>
    /\ documentsLoading = FALSE
    /\ nextCursor = None
    /\ docFetches = <<>>
    /\ browseToast = "none"
    /\ selections = 0
    /\ loadMores = 0
    /\ runResult = None
    /\ runError = None
    /\ isRunning = FALSE
    /\ executions = <<>>
    /\ runToast = "none"
    /\ runs = 0
    /\ formShown = FALSE
    /\ argsJson = DefaultArgsJson
    /\ parseError = None
    /\ formOp = NoFormOp
    /\ switchViewState = "teams"
    /\ selectedTeam = None
    /\ selectedProject = None
    /\ selectedContext = NoContext
    /\ teams = None
    /\ projects = None
    /\ contextLoaded = FALSE
    /\ switchToast = "none"
    /\ switchOp = NoSwitchOp

----------------------------------------------------------------------------
(* Storage-level calls, each made while no other operation runs *)

\* A sign-out that forgets the selected context
ClearSessionKeys_SessionOnly == {ACCESS_TOKEN, TOKEN_EXPIRES_AT, REFRESH_TOKEN}

\* The keys clearSession removes
ClearSessionKeys ==
    {ACCESS_TOKEN, TOKEN_EXPIRES_AT, REFRESH_TOKEN,
     SELECTED_TEAM_ID, SELECTED_PROJECT_ID, SELECTED_DEPLOYMENT_NAME}

\* saveSession(s): the first n setItem calls succeed, the next one (if any) rejects
SaveSession(s, n) ==
    /\ pc = "idle"
    /\ n \in 0..Len(SaveSessionWrites(s))
    /\ store' = ApplyWrites(store, SaveSessionWrites(s), n)
    /\ storeBefore' = store
    /\ opRet' = [op |-> "saveSession", threw |-> n < Len(SaveSessionWrites(s)),
                 arg |-> Some(s), value |-> None, at |-> now]
    /\ UNCHANGED <<now, pc, pollVars>>
    /\ UNCHANGED logVars
    /\ UNCHANGED screenVars

\* loadSession()
LoadSessionCall ==
    /\ pc = "idle"
    /\ storeBefore' = store
    /\ opRet' = [op |-> "loadSession", threw |-> FALSE, arg |-> None,
                 value |-> LoadSession(store), at |-> now]
    /\ UNCHANGED <<now, store, pc, pollVars>>
    /\ UNCHANGED logVars
    /\ UNCHANGED screenVars

\* clearSession(): Promise.all of the removals, those of `failed` reject
ClearSession(failed) ==
    /\ pc = "idle"
    /\ failed \subseteq ClearSessionKeys
    /\ store' = RemoveItems(store, ClearSessionKeys \ failed)
    /\ storeBefore' = store
    /\ opRet' = [op |-> "clearSession", threw |-> failed # {},
                 arg |-> Some(failed), value |-> None, at |-> now]
    /\ UNCHANGED <<now, pc, pollVars>>
    /\ UNCHANGED logVars
    /\ UNCHANGED screenVars

\* isSessionExpired(s)
IsSessionExpiredCall(s) ==
    /\ pc = "idle"
    /\ storeBefore' = store
    /\ opRet' = [op |-> "isSessionExpired", threw |-> FALSE, arg |-> Some(s),
                 value |-> Some(IsSessionExpired(s, now)), at |-> now]
    /\ UNCHANGED <<now, store, pc, pollVars>>
    /\ UNCHANGED logVars
    /\ UNCHANGED screenVars

\* saveSelectedContext(c): the first n setItem calls succeed, the next one rejects
SaveSelectedContext(c, n) ==
    /\ pc = "idle"
    /\ n \in 0..Len(SaveSelectedContextWrites(c))
    /\ store' = ApplyWrites(store, SaveSelectedContextWrites(c), n)
    /\ storeBefore' = store
    /\ opRet' = [op |-> "saveSelectedContext",
                 threw |-> n < Len(SaveSelectedContextWrites(c)),
                 arg |-> Some(c), value |-> None, at |-> now]
    /\ UNCHANGED <<now, pc, pollVars>>
    /\ UNCHANGED logVars
    /\ UNCHANGED screenVars

\* loadSelectedContext()
LoadSelectedContextCall ==
    /\ pc = "idle"
    /\ storeBefore' = store
    /\ opRet' = [op |-> "loadSelectedContext", threw |-> FALSE, arg |-> None,
                 value |-> Some(LoadSelectedContext(store)), at |-> now]
    /\ UNCHANGED <<now, store, pc, pollVars>>
    /\ UNCHANGED logVars
    /\ UNCHANGED screenVars

\* The session exchangeForDashboardToken builds from a successful response at time t
ExchangeForDashboardToken(data, t) ==
    [accessToken  |-> data.accessToken,
     tokenType    |-> IF IsSome(data.tokenType) THEN The(data.tokenType) ELSE "Bearer",
     expiresAt    |-> IF TruthyNum(data.expiresAt)
                      THEN Some(t + The(data.expiresAt) * 1000) ELSE None,
     refreshToken |-> data.refreshToken]

\* exchangeForDashboardToken(oidcToken): the /api/authorize response arrives at
\* time now, with a non-success status or with the body data
ExchangeForDashboardTokenCall(ok, data) ==
    /\ pc = "idle"
    /\ storeBefore' = store
    /\ opRet' = [op |-> "exchangeForDashboardToken", threw |-> ~ok,
                 arg |-> Some(data),
                 value |-> IF ok THEN Some(ExchangeForDashboardToken(data, now))
                           ELSE None,
                 at |-> now]
    /\ UNCHANGED <<now, store, pc, pollVars>>
    /\ UNCHANGED logVars
    /\ UNCHANGED screenVars

\* Time passes while nothing runs
TimePasses ==
    /\ pc = "idle"
    /\ now + TickMs <= MaxTicks * TickMs
    /\ now' = now + TickMs
    /\ UNCHANGED <<store, pc, pollVars, storeBefore, opRet>>
    /\ UNCHANGED logVars
    /\ UNCHANGED screenVars

NextStore ==
    \/ \E s \in Sessions : \E n \in 0..3 : SaveSession(s, n)
    \/ LoadSessionCall
    \/ \E failed \in SUBSET STORAGE_KEYS : ClearSession(failed)
    \/ \E s \in Sessions : IsSessionExpiredCall(s)
    \/ \E c \in Contexts : \E n \in 0..3 : SaveSelectedContext(c, n)
    \/ LoadSelectedContextCall
    \/ \E ok \in BOOLEAN : \E data \in ExchangeDatas :
         ExchangeForDashboardTokenCall(ok, data)
    \/ TimePasses

SpecStore == Init /\ [][NextStore]_vars

----------------------------------------------------------------------------
(* The log of an operation *)

Ev(e, what, detail, ms, at) ==
    [e |-> e, what |-> what, detail |-> detail, ms |-> ms, at |-> at]

\* fetch(...) is called at time t
Req(what, t) == Ev("request", what, "", 0, t)

\* The response arrives at time t; detail is "ok", the error or the HTTP status
Resp(what, detail, t) == Ev("response", what, detail, 0, t)

\* A sleep of ms milliseconds ends at time t
Slept(ms, t) == Ev("sleep", "", "", ms, t)

IsTokenRequest(x) == x.e = "request" /\ x.what = "token"

IsTokenResponse(x) == x.e = "response" /\ x.what = "token"

IsSleep(x) == x.e = "sleep"

IsRequest(x) == x.e = "request"

TokenRequests(ev) == Len(SelectSeq(ev, IsTokenRequest))

Sleeps(ev) == Len(SelectSeq(ev, IsSleep))

Requests(ev) == Len(SelectSeq(ev, IsRequest))

RECURSIVE WriteEvents(_, _)
\* The log entries of the first n writes
WriteEvents(writes, n) ==
    IF n = 0 THEN <<>>
    ELSE Append(WriteEvents(writes, n - 1), Ev("setItem", writes[n][1], "", 0, 0))

----------------------------------------------------------------------------
(* authenticate(): what follows the poll, and its catch block *)

Threw(msg, detail) == [NoRet EXCEPT !.status = "threw", !.msg = msg, !.detail = detail]

\* catch (error) { toast ...; throw error }
AuthThrows(msg, detail, ev) ==
    /\ pc' = "idle"
    /\ events' = ev
    /\ authRet' = Threw(msg, detail)
    /\ toast' = [style |-> "Failure", title |-> "Authentication failed"]

\* const tokens = await pollForDeviceToken(deviceAuth); if (!tokens) throw ...;
\* then the request of exchangeForDashboardToken
AuthAfterPoll(ret, ev) ==
    IF ret.status = "threw" THEN AuthThrows(ret.msg, ret.detail, ev)
    ELSE IF ret.tokens = None
    THEN AuthThrows("Authentication expired or cancelled", "", ev)
    ELSE /\ pc' = "exchange"
         /\ events' = Append(ev, Req("exchange", now'))
         /\ toast' = [style |-> "Animated", title |-> "Completing authentication..."]
         /\ UNCHANGED authRet

----------------------------------------------------------------------------
(* pollForDeviceToken(auth, onPoll, shouldStop) *)

\* A poll that ignores the advertised interval
PollIntervalMs_AlwaysDefault(a) == 5 * 1000

\* An interval of 0 taken literally (auth.interval ?? 5)
PollIntervalMs_ZeroTakenLiterally(a) ==
    (IF IsSome(a.interval) THEN The(a.interval) ELSE 5) * 1000

\* (auth.interval || 5) * 1000
PollIntervalMs(a) == (IF TruthyNum(a.interval) THEN The(a.interval) ELSE 5) * 1000

\* Date.now() + auth.expires_in * 1000
PollDeadline(a, t) == t + a.expires_in * 1000

\* A loop that still polls at the deadline itself
LoopContinues_Inclusive(t, deadline) == t <= deadline

\* A loop that never looks at the deadline (while (true))
LoopContinues_NoDeadline(t, deadline) == TRUE

\* while (Date.now() < expiresAt)
LoopContinues(t, deadline) == t < deadline

\* A loop that never consults shouldStop
StopRequested_Ignored(stop) == FALSE

\* shouldStop?.()
StopRequested(stop) == stop = "true"

\* errorBody.error of a non-success response: "" when the body is no JSON
\* or has no error member
ErrorOf(resp) == IF resp.body = "json" THEN resp.error ELSE ""

\* error || response.status
ErrorOrStatus(resp) == IF ErrorOf(resp) # "" THEN ErrorOf(resp) ELSE resp.status

\* How a response is logged
ResponseDetail(resp) == IF resp.ok THEN "ok" ELSE ErrorOrStatus(resp)

\* expired_token taken for one more "keep waiting" answer
TokenOutcome_ExpiredRetries(resp) ==
    IF resp.ok THEN "return"
    ELSE IF ErrorOf(resp) \in {"authorization_pending", "slow_down", "expired_token"}
    THEN "retry"
    ELSE IF ErrorOf(resp) = "access_denied" THEN "denied"
    ELSE "failed"

\* access_denied falling through to the generic failure
TokenOutcome_DeniedAsFailed(resp) ==
    IF resp.ok THEN "return"
    ELSE IF ErrorOf(resp) \in {"authorization_pending", "slow_down"} THEN "retry"
    ELSE IF ErrorOf(resp) = "expired_token" THEN "expired"
    ELSE "failed"

\* A loop that sleeps and polls again after a success response
TokenOutcome_OkKeepsPolling(resp) ==
    IF resp.ok \/ ErrorOf(resp) \in {"authorization_pending", "slow_down"} THEN "retry"
    ELSE IF ErrorOf(resp) = "expired_token" THEN "expired"
    ELSE IF ErrorOf(resp) = "access_denied" THEN "denied"
    ELSE "failed"

\* A raised stop signal aborting the request in flight, whose answer is then
\* taken for a failure
TokenOutcome_AbortedByStop(resp) ==
    IF shouldStop = "true" THEN "failed"
    ELSE IF resp.ok THEN "return"
    ELSE IF ErrorOf(resp) \in {"authorization_pending", "slow_down"} THEN "retry"
    ELSE IF ErrorOf(resp) = "expired_token" THEN "expired"
    ELSE IF ErrorOf(resp) = "access_denied" THEN "denied"
    ELSE "failed"

\* What the loop body does with a response
TokenOutcome(resp) ==
    IF resp.ok THEN "return"
    ELSE IF ErrorOf(resp) \in {"authorization_pending", "slow_down"} THEN "retry"
    ELSE IF ErrorOf(resp) = "expired_token" THEN "expired"
    ELSE IF ErrorOf(resp) = "access_denied" THEN "denied"
    ELSE "failed"

\* The k-th answer of the token endpoint
Answer(sc, k) == IF k <= Len(sc) THEN sc[k] ELSE TokenError("authorization_pending")

\* pollForDeviceToken settles: its promise resolves or rejects, and its caller goes on
PollEnds(ret, ev) ==
    /\ pollRet' = ret
    /\ IF caller = "direct"
       THEN /\ pc' = "idle"
            /\ events' = ev
            /\ UNCHANGED <<authRet, toast>>
       ELSE AuthAfterPoll(ret, ev)

\* One pass from the loop head to the next await, at time t
PollIteration(t, deadline, stop, ev) ==
    IF LoopContinues(t, deadline)
    THEN IF StopRequested(stop)
         THEN PollEnds([NoRet EXCEPT !.status = "returned"], ev)
         ELSE /\ pc' = "pollFetch"
              /\ events' = ev \o (IF caller = "direct"
                                    THEN <<Ev("onPoll", "", "", 0, t)>> ELSE <<>>)
                              \o <<Req("token", t)>>
              /\ UNCHANGED <<pollRet, authRet, toast>>
    ELSE PollEnds([NoRet EXCEPT !.status = "returned"], ev)

\* A direct call of the exported pollForDeviceToken: the discovery request is sent
CallPoll(a, stop, sc) ==
    /\ pc = "idle"
    /\ caller = "none"
    /\ caller' = "direct"
    /\ auth' = Some(a)
    /\ shouldStop' = stop
    /\ script' = sc
    /\ pc' = "pollDiscover"
    /\ events' = <<Req("discovery", now)>>
    /\ storeBefore' = store
    /\ opRet' = [NoOp EXCEPT !.op = "pollForDeviceToken", !.arg = Some(stop),
                             !.at = now]
    /\ UNCHANGED <<now, store, pollInterval, pollExpiresAt, pollRet, authRet,
                   toast, session>>
    /\ UNCHANGED logVars
    /\ UNCHANGED screenVars

\* The caller's stop signal becomes true
RaiseStop ==
    /\ pc \in {"pollDiscover", "pollFetch", "pollSleep"}
    /\ shouldStop = "false"
    /\ shouldStop' = "true"
    /\ UNCHANGED <<now, store, pc, caller, auth, pollInterval, pollExpiresAt,
                   script, events, pollRet, authRet, toast, session, storeBefore,
                   opRet>>
    /\ UNCHANGED logVars
    /\ UNCHANGED screenVars

\* The discovery response of pollForDeviceToken arrives
PollDiscoverRespond(ok) ==
    /\ pc = "pollDiscover"
    /\ IF ok
       THEN /\ pollInterval' = PollIntervalMs(The(auth))
            /\ pollExpiresAt' = PollDeadline(The(auth), now)
            /\ PollIteration(now, PollDeadline(The(auth), now), shouldStop,
                             Append(events, Resp("discovery", "ok", now)))
       ELSE /\ UNCHANGED <<pollInterval, pollExpiresAt>>
            /\ PollEnds(Threw("Failed to discover auth configuration: ", "500"),
                        Append(events, Resp("discovery", "500", now)))
    /\ UNCHANGED <<now, store, caller, auth, shouldStop, script, session,
                   storeBefore, opRet>>
    /\ UNCHANGED logVars
    /\ UNCHANGED screenVars

\* The token response arrives, lat ms after the request
TokenRespond(lat) ==
    /\ pc = "pollFetch"
    /\ now' = now + lat
    /\ LET resp == Answer(script, TokenRequests(events))
           ev == Append(events, Resp("token", ResponseDetail(resp), now + lat))
           outcome == TokenOutcome(resp)
       IN  CASE outcome = "return" ->
                  PollEnds([NoRet EXCEPT !.status = "returned",
                                         !.tokens = Some([access_token |-> resp.access_token])],
                           ev)
             [] outcome = "retry" ->
                  /\ pc' = "pollSleep"
                  /\ events' = ev
                  /\ UNCHANGED <<pollRet, authRet, toast>>
             [] outcome = "expired" ->
                  PollEnds(Threw("Authentication expired. Please try again.", ""), ev)
             [] outcome = "denied" ->
                  PollEnds(Threw("Authentication was denied.", ""), ev)
             [] OTHER ->
                  PollEnds(Threw("Authentication failed: ", ErrorOrStatus(resp)), ev)
    /\ UNCHANGED <<store, caller, auth, shouldStop, pollInterval, pollExpiresAt,
                   script, session, storeBefore, opRet>>
    /\ UNCHANGED logVars
    /\ UNCHANGED screenVars

\* setTimeout(resolve, pollInterval) fires, and the loop goes round
SleepDone ==
    /\ pc = "pollSleep"
    /\ now' = now + pollInterval
    /\ PollIteration(now + pollInterval, pollExpiresAt, shouldStop,
                     Append(events, Slept(pollInterval, now + pollInterval)))
    /\ UNCHANGED <<store, caller, auth, shouldStop, pollInterval, pollExpiresAt,
                   script, session, storeBefore, opRet>>
    /\ UNCHANGED logVars
    /\ UNCHANGED screenVars

NextPoll ==
    \/ \E a \in DeviceAuths : \E stop \in {"absent", "false", "true"} :
         \E sc \in Scripts : CallPoll(a, stop, sc)
    \/ RaiseStop
    \/ \E ok \in BOOLEAN : PollDiscoverRespond(ok)
    \/ \E lat \in Latencies : TokenRespond(lat)
    \/ SleepDone

SpecPoll == Init /\ [][NextPoll]_vars

\* Every pending await of the poll settles: the responses of the two endpoints
\* arrive and the timer of the sleep fires
PollFairness ==
    /\ WF_vars(\E ok \in BOOLEAN : PollDiscoverRespond(ok))
    /\ WF_vars(\E lat \in Latencies : TokenRespond(lat))
    /\ WF_vars(SleepDone)

SpecPollFair == SpecPoll /\ PollFairness

----------------------------------------------------------------------------
(* authenticate() *)

\* An earlier sign-in, before the attempt this behaviour follows
SavePrior(s) ==
    /\ pc = "idle"
    /\ caller = "none"
    /\ store = EmptyStore
    /\ store' = ApplyWrites(store, SaveSessionWrites(s), Len(SaveSessionWrites(s)))
    /\ UNCHANGED <<now, pc, pollVars, storeBefore, opRet>>
    /\ UNCHANGED logVars
    /\ UNCHANGED screenVars

\* authenticate() is called: the toast is shown and startDeviceAuthorization
\* sends its discovery request
Authenticate ==
    /\ pc = "idle"
    /\ caller = "none"
    /\ caller' = "authenticate"
    /\ pc' = "discover"
    /\ toast' = [style |-> "Animated", title |-> "Starting authentication..."]
    /\ events' = <<Req("discovery", now)>>
    /\ storeBefore' = store
    /\ opRet' = [NoOp EXCEPT !.op = "authenticate", !.at = now]
    /\ UNCHANGED <<now, store, auth, shouldStop, pollInterval, pollExpiresAt,
                   script, pollRet, authRet, session>>
    /\ UNCHANGED logVars
    /\ UNCHANGED screenVars

\* A discoverAuthEndpoints without its `if (!response.ok) throw`: the
\* device-authorization request is sent whatever the discovery status was
DiscoverRespond_StatusUnchecked(ok) ==
    /\ pc = "discover"
    /\ pc' = "deviceAuth"
    /\ events' = events \o <<Resp("discovery", IF ok THEN "ok" ELSE "500", now),
                              Req("device", now)>>
    /\ UNCHANGED <<now, store, caller, auth, shouldStop, pollInterval,
                   pollExpiresAt, script, pollRet, session, storeBefore, opRet,
                   authRet, toast>>
    /\ UNCHANGED logVars
    /\ UNCHANGED screenVars

\* The discovery response of startDeviceAuthorization arrives
DiscoverRespond(ok) ==
    /\ pc = "discover"
    /\ IF ok
       THEN /\ pc' = "deviceAuth"
            /\ events' = events \o <<Resp("discovery", "ok", now), Req("device", now)>>
            /\ UNCHANGED <<authRet, toast>>
       ELSE AuthThrows("Failed to discover auth configuration: ", "500",
                       Append(events, Resp("discovery", "500", now)))
    /\ UNCHANGED <<now, store, caller, auth, shouldStop, pollInterval,
                   pollExpiresAt, script, pollRet, session, storeBefore, opRet>>
    /\ UNCHANGED logVars
    /\ UNCHANGED screenVars

\* The device-authorization response arrives; on success the code is shown
\* and the browser is opened
DeviceAuthRespond(ok, a) ==
    /\ pc = "deviceAuth"
    /\ IF ok
       THEN /\ auth' = Some(a)
            /\ pc' = "open"
            /\ events' = events \o <<Resp("device", "ok", now), Ev("open", "", "", 0, now)>>
            /\ toast' = [style |-> "Animated", title |-> "Waiting for authentication"]
            /\ UNCHANGED authRet
       ELSE /\ UNCHANGED auth
            /\ AuthThrows("Failed to start device authorization: ", "500",
                          Append(events, Resp("device", "500", now)))
    /\ UNCHANGED <<now, store, caller, shouldStop, pollInterval, pollExpiresAt,
                   script, pollRet, session, storeBefore, opRet>>
    /\ UNCHANGED logVars
    /\ UNCHANGED screenVars

\* open() settles; on success pollForDeviceToken starts with its discovery request
OpenDone(ok, sc) ==
    /\ pc = "open"
    /\ IF ok
       THEN /\ script' = sc
            /\ pc' = "pollDiscover"
            /\ events' = Append(events, Req("discovery", now))
            /\ UNCHANGED <<authRet, toast>>
       ELSE /\ UNCHANGED script
            /\ AuthThrows("open failed", "", events)
    /\ UNCHANGED <<now, store, caller, auth, shouldStop, pollInterval,
                   pollExpiresAt, pollRet, session, storeBefore, opRet>>
    /\ UNCHANGED logVars
    /\ UNCHANGED screenVars

\* The /api/authorize response arrives; on success saveSession starts
ExchangeRespond(ok, data) ==
    /\ pc = "exchange"
    /\ IF ok
       THEN /\ session' = Some(ExchangeForDashboardToken(data, now))
            /\ pc' = "save"
            /\ events' = Append(events, Resp("exchange", "ok", now))
            /\ UNCHANGED <<authRet, toast>>
       ELSE /\ UNCHANGED session
            /\ AuthThrows("Failed to authorize with Convex: ", "500",
                          Append(events, Resp("exchange", "500", now)))
    /\ UNCHANGED <<now, store, caller, auth, shouldStop, pollInterval,
                   pollExpiresAt, script, pollRet, storeBefore, opRet>>
    /\ UNCHANGED logVars
    /\ UNCHANGED screenVars

\* await saveSession(session): the first n setItem calls succeed, the next one
\* (if any) rejects; then the success toast and return session
SaveDone(n) ==
    /\ pc = "save"
    /\ n \in 0..Len(SaveSessionWrites(The(session)))
    /\ store' = ApplyWrites(store, SaveSessionWrites(The(session)), n)
    /\ LET ev == events \o WriteEvents(SaveSessionWrites(The(session)), n)
       IN  IF n = Len(SaveSessionWrites(The(session)))
           THEN /\ pc' = "idle"
                /\ events' = ev
                /\ authRet' = [NoRet EXCEPT !.status = "returned", !.session = session]
                /\ toast' = [style |-> "Success", title |-> "Authenticated successfully"]
           ELSE AuthThrows("setItem rejected", "", ev)
    /\ UNCHANGED <<now, caller, auth, shouldStop, pollInterval, pollExpiresAt,
                   script, pollRet, session, storeBefore, opRet>>
    /\ UNCHANGED logVars
    /\ UNCHANGED screenVars

Next ==
    \/ \E s \in PriorSessions : SavePrior(s)
    \/ Authenticate
    \/ \E ok \in BOOLEAN : DiscoverRespond(ok)
    \/ \E ok \in BOOLEAN : \E a \in DeviceAuths : DeviceAuthRespond(ok, a)
    \/ \E ok \in BOOLEAN : \E sc \in Scripts : OpenDone(ok, sc)
    \/ \E ok \in BOOLEAN : PollDiscoverRespond(ok)
    \/ \E lat \in Latencies : TokenRespond(lat)
    \/ SleepDone
    \/ \E ok \in BOOLEAN : \E data \in ExchangeDatas : ExchangeRespond(ok, data)
    \/ \E n \in 0..3 : SaveDone(n)

Spec == Init /\ [][Next]_vars

----------------------------------------------------------------------------
(* The log poller (useLogs), called from ViewLogsCommand                     *)

\* The deployment produces at most MaxEntries log entries in a behaviour
MaxEntries == 2

\* At most MaxRefreshes refresh() calls are in flight at a time
MaxRefreshes == 1

\* The i-th entry the deployment produces; entries 2 and 3, 4 and 5, ... carry
\* the same timestamp
LogEntryOf(i) == [id |-> i, timestamp |-> 10 * ((i \div 2) + 1)]

RECURSIVE EntriesOf(_)
\* The entries with ids in S, in the order the deployment produced them
EntriesOf(S) ==
    IF S = {} THEN <<>>
    ELSE LET m == CHOOSE x \in S : \A y \in S : y <= x
         IN  Append(EntriesOf(S \ {m}), LogEntryOf(m))

\* What a fetch for the entries not older than `since` may return when n entries
\* exist: those among the first k entries, for a k up to n (the newest entries
\* may not be served yet); entries the buffer already holds are included
FetchResults(since, n) ==
    {EntriesOf({i \in 1..k : LogEntryOf(i).timestamp >= since}) : k \in 0..n}

\* Every result a fetch can return
AllFetchResults ==
    UNION {FetchResults(since, MaxEntries) :
             since \in {0} \cup {LogEntryOf(i).timestamp : i \in 1..MaxEntries}}

\* The ids of a sequence of entries
IdsOf(entries) == {entries[i].id : i \in 1..Len(entries)}

\* The timestamp of the newest entry held: what the next fetch asks to start from
Cursor(buffer) == IF buffer = <<>> THEN 0 ELSE buffer[1].timestamp

RECURSIVE WithoutIds(_, _)
\* The entries of a sequence whose id is not in ids
WithoutIds(entries, ids) ==
    IF entries = <<>> THEN <<>>
    ELSE IF Head(entries).id \in ids THEN WithoutIds(Tail(entries), ids)
    ELSE <<Head(entries)>> \o WithoutIds(Tail(entries), ids)

\* e inserted into a sequence sorted newest-first, after the entries that are
\* not older than e
InsertByTimestamp(sorted, e) ==
    LET k == Cardinality({i \in 1..Len(sorted) : sorted[i].timestamp >= e.timestamp})
    IN  SubSeq(sorted, 1, k) \o <<e>> \o SubSeq(sorted, k + 1, Len(sorted))

RECURSIVE SortByTimestampDesc(_)
\* Sort by timestamp, descending
SortByTimestampDesc(entries) ==
    IF entries = <<>> THEN <<>>
    ELSE InsertByTimestamp(SortByTimestampDesc(SubSeq(entries, 1, Len(entries) - 1)),
                           entries[Len(entries)])

\* A merge that appends the whole result and sorts, without looking at ids
MergeLogs_NoDedupe(buffer, result) == SortByTimestampDesc(buffer \o result)

\* Merge of a fetch result into the buffer: append the entries whose id is not
\* held yet, then sort by timestamp descending
MergeLogs(buffer, result) ==
    SortByTimestampDesc(buffer \o WithoutIds(result, IdsOf(buffer)))

\* A fetch in flight: who issued it and from where it asks; afterClear marks the
\* fetch of the first tick after a clearLogs() that emptied a non-empty buffer
Fetch(kind, since, afterClear) ==
    [kind |-> kind, since |-> since, afterClear |-> afterClear]

\* The fetches of a kind that are in flight
InFlight(fs, kind) == {i \in 1..Len(fs) : fs[i].kind = kind}

\* A sequence without its i-th element
RemoveAt(s, i) == SubSeq(s, 1, i - 1) \o SubSeq(s, i + 1, Len(s))

\* The record of a poller step taken in the current state; cleared says that
\* clearLogs() has emptied a non-empty buffer and no tick has fired since
LogStep(op, kind, ok, discarded, result) ==
    [op |-> op, kind |-> kind, ok |-> ok, discarded |-> discarded,
     result |-> result, logsBefore |-> logs, streamingBefore |-> isStreaming,
     timerBefore |-> timer, inflightBefore |-> inflight,
     cleared |-> logOp.cleared, afterClear |-> FALSE,
     awaiter |-> "none", toast |-> FALSE]

\* The actions of ViewLogsCommand that call refresh(): the Refresh Logs action
\* of a log item, which awaits it and then shows a toast ("action"), and the
\* Refresh Logs action of the empty view, which only calls it ("plain")
RefreshCallers == {"action", "plain"}

\* The Refresh Logs action on screen: log items, each with the action that
\* shows a toast, when the buffer has entries, and the empty view otherwise
RefreshCaller(buffer) == IF buffer = <<>> THEN "plain" ELSE "action"

\* A Refresh Logs action that does not await refresh() before showToast
ShowsToastOnInvoke_NotAwaited(awaiter) == awaiter = "action"

\* Whether the toast is shown when the action has called refresh(), which is
\* still pending: `await refresh()` comes before showToast
ShowsToastOnInvoke(awaiter) == FALSE

\* Whether the toast is shown when refresh() has settled: showToast runs once
\* the awaited refresh() has resolved, and not when it rejected
ShowsToastOnSettle(awaiter, resolved) == awaiter = "action" /\ resolved

\* The toast on screen after a step that shows it or does not
ToastAfter(shows, tst) == IF shows THEN "Logs refreshed" ELSE tst

\* A poller that gives up after a failed fetch
TimerAfterTick_StopsOnFailure(streaming, ok, tm) ==
    IF streaming /\ ok THEN "scheduled" ELSE tm

\* The timer after the fetch of a tick has settled, with success or with
\* failure: the next tick is scheduled while streaming is enabled
TimerAfterTick(streaming, ok, tm) == IF streaming THEN "scheduled" ELSE tm

\* A resume that schedules a tick although a tick's fetch is still in flight
TimerAfterToggle_AlwaysResumes(streaming, fs) ==
    IF streaming THEN "scheduled" ELSE "none"

\* A pause that leaves a scheduled tick pending
TimerAfterToggle_TimerKeptOnPause(streaming, fs) ==
    IF streaming /\ InFlight(fs, "tick") = {} THEN "scheduled" ELSE timer

\* The timer after toggleStreaming(): suspended when streaming is disabled;
\* resumed when it is enabled, unless a tick's fetch is still in flight (that
\* fetch schedules the next tick when it settles)
TimerAfterToggle(streaming, fs) ==
    IF streaming /\ InFlight(fs, "tick") = {} THEN "scheduled" ELSE "none"

\* start(deploymentName, token, filter): the first fetch is issued at once
Start ==
    /\ ~started
    /\ started' = TRUE
    /\ isStreaming' = TRUE
    /\ timer' = "none"
    /\ inflight' = Append(inflight, Fetch("tick", Cursor(logs), FALSE))
    /\ awaiters' = Append(awaiters, "none")
    /\ logOp' = LogStep("start", "tick", TRUE, FALSE, <<>>)
    /\ UNCHANGED <<logs, produced, fetchError, logToast, authVars, screenVars>>

\* The deployment runs a function and keeps its log entry
Produce ==
    /\ produced < MaxEntries
    /\ produced' = produced + 1
    /\ UNCHANGED <<logs, isStreaming, started, timer, inflight, fetchError, logOp,
                   awaiters, logToast, authVars, screenVars>>

\* The timer fires: the fetch of the tick is issued
TimerFires ==
    /\ started
    /\ timer = "scheduled"
    /\ isStreaming
    /\ timer' = "none"
    /\ inflight' = Append(inflight, Fetch("tick", Cursor(logs), logOp.cleared))
    /\ logOp' = [LogStep("tick", "tick", TRUE, FALSE, <<>>)
                   EXCEPT !.cleared = FALSE, !.afterClear = logOp.cleared]
    /\ awaiters' = Append(awaiters, "none")
    /\ UNCHANGED <<logs, isStreaming, started, produced, fetchError, logToast,
                   authVars, screenVars>>

\* The i-th fetch in flight settles: it fails, or it succeeds with `result`,
\* which is merged into the buffer (the result of a tick whose streaming was
\* turned off in the meantime may be discarded instead)
FetchSettles(i, ok, result, discard) ==
    /\ i \in 1..Len(inflight)
    /\ LET f == inflight[i]
       IN  /\ inflight' = RemoveAt(inflight, i)
           /\ timer' = IF f.kind = "tick" THEN TimerAfterTick(isStreaming, ok, timer)
                       ELSE timer
           /\ IF ok
              THEN /\ result \in FetchResults(f.since, produced)
                   /\ discard => (f.kind = "tick" /\ ~isStreaming)
                   /\ logs' = IF discard THEN logs ELSE MergeLogs(logs, result)
                   /\ UNCHANGED fetchError
              ELSE /\ result = <<>>
                   /\ ~discard
                   /\ logs' = logs
                   /\ fetchError' = Some("FetchError")
           /\ awaiters' = RemoveAt(awaiters, i)
           /\ \E resolved \in BOOLEAN :
                /\ ok => resolved
                /\ logToast' = ToastAfter(ShowsToastOnSettle(awaiters[i], resolved),
                                          logToast)
                /\ logOp' = [LogStep("settle", f.kind, ok, discard, result)
                               EXCEPT !.afterClear = f.afterClear,
                                      !.awaiter = awaiters[i],
                                      !.toast = ShowsToastOnSettle(awaiters[i],
                                                                   resolved)]
    /\ UNCHANGED <<isStreaming, started, produced, authVars, screenVars>>

\* toggleStreaming()
ToggleStreaming ==
    /\ started
    /\ isStreaming' = ~isStreaming
    /\ timer' = TimerAfterToggle(~isStreaming, inflight)
    /\ logOp' = LogStep("toggleStreaming", "", TRUE, FALSE, <<>>)
    /\ UNCHANGED <<logs, started, inflight, produced, fetchError, awaiters,
                   logToast, authVars, screenVars>>

\* refresh(), called by one of the Refresh Logs actions: one fetch, issued at
\* once, whatever the streaming flag says; the caller awaits its completion
Refresh ==
    /\ started
    /\ Cardinality(InFlight(inflight, "refresh")) < MaxRefreshes
    /\ inflight' = Append(inflight, Fetch("refresh", Cursor(logs), FALSE))
    /\ \E awaiter \in {RefreshCaller(logs)} :
         /\ awaiters' = Append(awaiters, awaiter)
         /\ logToast' = ToastAfter(ShowsToastOnInvoke(awaiter), logToast)
         /\ logOp' = [LogStep("refresh", "refresh", TRUE, FALSE, <<>>)
                        EXCEPT !.awaiter = awaiter,
                               !.toast = ShowsToastOnInvoke(awaiter)]
    /\ UNCHANGED <<logs, isStreaming, started, timer, produced, fetchError,
                   authVars, screenVars>>

\* A clearLogs() that also turns streaming off
ClearLogs_StopsStreaming ==
    /\ started
    /\ logs' = <<>>
    /\ isStreaming' = FALSE
    /\ timer' = "none"
    /\ logOp' = [LogStep("clearLogs", "", TRUE, FALSE, <<>>)
                   EXCEPT !.cleared = logOp.cleared \/ logs # <<>>]
    /\ UNCHANGED <<started, inflight, produced, fetchError, awaiters, logToast,
                   authVars, screenVars>>

\* clearLogs()
ClearLogs ==
    /\ started
    /\ logs' = <<>>
    /\ logOp' = [LogStep("clearLogs", "", TRUE, FALSE, <<>>)
                   EXCEPT !.cleared = logOp.cleared \/ logs # <<>>]
    /\ UNCHANGED <<isStreaming, started, timer, inflight, produced, fetchError,
                   awaiters, logToast, authVars, screenVars>>

NextLogs ==
    \/ Start
    \/ Produce
    \/ TimerFires
    \/ \E i \in 1..(1 + MaxRefreshes) : \E ok \in BOOLEAN :
         \E result \in AllFetchResults : \E discard \in BOOLEAN :
           FetchSettles(i, ok, result, discard)
    \/ ToggleStreaming
    \/ Refresh
    \/ ClearLogs

SpecLogs == Init /\ [][NextLogs]_vars

----------------------------------------------------------------------------
(* Browse Tables (browse-tables.tsx): tables, then the documents of one table *)

\* How many tables are selected, Load More requests are sent, and pages a table has
MaxSelections == 2

MaxLoadMores == 2

MaxPages == 2

\* The tables of the selected deployment
Tables == {"users", "tasks"}

\* A document: the table it belongs to and the page it came with
Doc(t, p) == [table |-> t, page |-> p]

\* The page a cursor leads to; no cursor leads to the first page
PageOf(cursor) == IF cursor = None THEN 1 ELSE The(cursor) + 1

\* getDocuments(deploymentName, accessToken, table, {limit: 50, cursor})
GetDocuments(t, cursor) ==
    [documents  |-> <<Doc(t, PageOf(cursor))>>,
     nextCursor |-> IF PageOf(cursor) < MaxPages THEN Some(PageOf(cursor)) ELSE None]

\* A getDocuments call in flight: of the effect ("fetch") or of loadMore ("more"),
\* with the table and cursor its closure captured and the selection it was made in
DocFetch(kind, t, cursor, sel) ==
    [kind |-> kind, table |-> t, cursor |-> cursor, sel |-> sel]

\* The Browse Documents action of a table item
SelectTableShown == viewState = "tables"

\* The Go Back action: of every document item, and of the empty view
GoBackShown ==
    /\ viewState = "documents"
    /\ (documents # <<>> \/ ~documentsLoading)

\* The Load More action: of every document item, and of the Load More item
LoadMoreShown ==
    /\ viewState = "documents"
    /\ nextCursor # None
    /\ (documents # <<>> \/ ~documentsLoading)

\* handleSelectTable(table), and the effect that selectedTable's change triggers:
\* fetchDocuments() sets the loading flag and sends its request
HandleSelectTable(t) ==
    /\ SelectTableShown
    /\ selections < MaxSelections
    /\ selectedTable' = Some(t)
    /\ documents' = <<>>
    /\ nextCursor' = None
    /\ viewState' = "documents"
    /\ documentsLoading' = TRUE
    /\ docFetches' = Append(docFetches, DocFetch("fetch", t, None, selections + 1))
    /\ selections' = selections + 1
    /\ UNCHANGED <<browseToast, loadMores>>
    /\ UNCHANGED <<authVars, logVars, runnerVars, switchVars>>

\* handleGoBack(): selectedTable becomes null, so the effect returns at once
BrowseGoBack ==
    /\ GoBackShown
    /\ selectedTable' = None
    /\ documents' = <<>>
    /\ nextCursor' = None
    /\ viewState' = "tables"
    /\ UNCHANGED <<documentsLoading, docFetches, browseToast, selections, loadMores>>
    /\ UNCHANGED <<authVars, logVars, runnerVars, switchVars>>

\* loadMore(), up to its await
LoadMore ==
    /\ LoadMoreShown
    /\ loadMores < MaxLoadMores
    /\ nextCursor # None /\ selectedTable # None
    /\ documentsLoading' = TRUE
    /\ docFetches' = Append(docFetches,
                            DocFetch("more", The(selectedTable), nextCursor, selections))
    /\ loadMores' = loadMores + 1
    /\ UNCHANGED <<viewState, selectedTable, documents, nextCursor, browseToast,
                   selections>>
    /\ UNCHANGED <<authVars, logVars, runnerVars, switchVars>>

\* The i-th getDocuments call settles: try / catch / finally of fetchDocuments
\* or of loadMore
DocFetchSettles(i, ok) ==
    /\ i \in 1..Len(docFetches)
    /\ LET f == docFetches[i]
           result == GetDocuments(f.table, f.cursor)
       IN  /\ documents' = IF ~ok THEN documents
                           ELSE IF f.kind = "fetch" THEN result.documents
                           ELSE documents \o result.documents
           /\ nextCursor' = IF ok THEN result.nextCursor ELSE nextCursor
           /\ browseToast' = IF ~ok /\ f.kind = "fetch"
                             THEN "Failed to load documents" ELSE browseToast
    /\ documentsLoading' = FALSE
    /\ docFetches' = RemoveAt(docFetches, i)
    /\ UNCHANGED <<viewState, selectedTable, selections, loadMores>>
    /\ UNCHANGED <<authVars, logVars, runnerVars, switchVars>>

NextBrowse ==
    \/ \E t \in Tables : HandleSelectTable(t)
    \/ BrowseGoBack
    \/ LoadMore
    \/ \E i \in 1..MaxSelections + MaxLoadMores : \E ok \in BOOLEAN :
         DocFetchSettles(i, ok)

SpecBrowse == Init /\ [][NextBrowse]_vars

----------------------------------------------------------------------------
(* FunctionRunner and ArgumentsForm (run-function.tsx) *)

\* How many times a function is run
MaxRuns == 2

\* An executeFunction call: awaiting runFunction ("run"), then showToast ("toast")
Execution(args, stage) == [args |-> args, stage |-> stage]

\* executeFunction(args), up to its first await
ExecuteFunction(args) ==
    /\ isRunning' = TRUE
    /\ runError' = None
    /\ runResult' = None
    /\ executions' = Append(executions, Execution(args, "run"))
    /\ runs' = runs + 1
    /\ UNCHANGED runToast

\* handleQuickRun()
HandleQuickRun ==
    /\ ~formShown
    /\ runs < MaxRuns
    /\ ExecuteFunction(EmptyArgs)
    /\ formOp' = NoFormOp
    /\ UNCHANGED <<formShown, argsJson, parseError>>
    /\ UNCHANGED <<authVars, logVars, browseVars, switchVars>>

\* handleRunWithArgs(): a fresh ArgumentsForm is pushed
HandleRunWithArgs ==
    /\ ~formShown
    /\ formShown' = TRUE
    /\ argsJson' = DefaultArgsJson
    /\ parseError' = None
    /\ formOp' = [NoFormOp EXCEPT !.op = "push"]
    /\ UNCHANGED <<runResult, runError, isRunning, executions, runToast, runs>>
    /\ UNCHANGED <<authVars, logVars, browseVars, switchVars>>

\* onChange of the Arguments field
ArgsChange(text) ==
    /\ formShown
    /\ argsJson' = text
    /\ parseError' = None
    /\ formOp' = [NoFormOp EXCEPT !.op = "change", !.text = text]
    /\ UNCHANGED <<runResult, runError, isRunning, executions, runToast, runs,
                   formShown>>
    /\ UNCHANGED <<authVars, logVars, browseVars, switchVars>>

\* A handleSubmit that runs the function before it leaves the form
HandleSubmitSteps_SubmitThenPop(parsed) ==
    IF parsed # None THEN <<"clearParseError", "onSubmit", "pop">>
    ELSE <<"setParseError">>

\* A handleSubmit that runs the function with no arguments when the text is
\* not JSON
HandleSubmitSteps_RunsAnyway(parsed) ==
    IF parsed # None THEN <<"clearParseError", "pop", "onSubmit">>
    ELSE <<"setParseError", "pop", "onSubmit">>

\* What handleSubmit does, in program order, with the outcome of JSON.parse
HandleSubmitSteps(parsed) ==
    IF parsed # None THEN <<"clearParseError", "pop", "onSubmit">>
    ELSE <<"setParseError">>

Does(steps, step) == \E i \in 1..Len(steps) : steps[i] = step

\* handleSubmit() of the ArgumentsForm; its onSubmit is executeFunction
HandleSubmit ==
    /\ formShown
    /\ LET parsed == JsonParse(argsJson)
           steps == HandleSubmitSteps(parsed)
       IN  /\ Does(steps, "onSubmit") => runs < MaxRuns
           /\ parseError' = IF Does(steps, "setParseError")
                            THEN Some("Invalid JSON format")
                            ELSE IF Does(steps, "clearParseError") THEN None
                            ELSE parseError
           /\ formShown' = ~Does(steps, "pop")
           /\ IF Does(steps, "onSubmit")
              THEN ExecuteFunction(IF parsed # None THEN The(parsed) ELSE EmptyArgs)
              ELSE UNCHANGED <<runResult, runError, isRunning, executions,
                               runToast, runs>>
           /\ formOp' = [op |-> "submit", text |-> argsJson, steps |-> steps,
                         executionsBefore |-> executions]
    /\ UNCHANGED argsJson
    /\ UNCHANGED <<authVars, logVars, browseVars, switchVars>>

\* The Cancel action of the form: pop()
FormCancel ==
    /\ formShown
    /\ formShown' = FALSE
    /\ formOp' = [NoFormOp EXCEPT !.op = "cancel"]
    /\ UNCHANGED <<runResult, runError, isRunning, executions, runToast, runs, argsJson,
                   parseError>>
    /\ UNCHANGED <<authVars, logVars, browseVars, switchVars>>

\* runFunction of the i-th unfinished call settles: setResult or setError, and
\* the toast is shown
RunSettles(i, ok) ==
    /\ i \in 1..Len(executions)
    /\ executions[i].stage = "run"
    /\ runResult' = IF ok THEN Some([data |-> "data", args |-> executions[i].args])
                    ELSE runResult
    /\ runError' = IF ok THEN runError ELSE Some("Server Error")
    /\ runToast' = IF ok THEN "Function executed successfully" ELSE "Function failed"
    /\ executions' = [executions EXCEPT ![i].stage = "toast"]
    /\ formOp' = NoFormOp
    /\ UNCHANGED <<isRunning, runs, formShown, argsJson, parseError>>
    /\ UNCHANGED <<authVars, logVars, browseVars, switchVars>>

\* showToast of the i-th unfinished call resolves: finally { setIsRunning(false) }
RunFinishes(i) ==
    /\ i \in 1..Len(executions)
    /\ executions[i].stage = "toast"
    /\ isRunning' = FALSE
    /\ executions' = RemoveAt(executions, i)
    /\ formOp' = NoFormOp
    /\ UNCHANGED <<runResult, runError, runToast, runs, formShown, argsJson,
                   parseError>>
    /\ UNCHANGED <<authVars, logVars, browseVars, switchVars>>

NextRunner ==
    \/ HandleQuickRun
    \/ HandleRunWithArgs
    \/ \E text \in ArgsTexts : ArgsChange(text)
    \/ HandleSubmit
    \/ FormCancel
    \/ \E i \in 1..MaxRuns : \E ok \in BOOLEAN : RunSettles(i, ok)
    \/ \E i \in 1..MaxRuns : RunFinishes(i)

SpecRunner == Init /\ [][NextRunner]_vars

----------------------------------------------------------------------------
(* Switch Project (switch-project.tsx): teams, projects, deployments *)

\* The teams of the account, the projects of each, the deployments of a project
TeamIds == {12, 14}

ProjectsOf(team) == IF team = 12 THEN {305, 306} ELSE {307}

DeploymentNames == {"dev-owl-1", "prod-cat-2"}

\* The contexts storage may hold at launch: none, a full selection, a team
\* only, a project of another team, a team the account no longer has
StoredContexts ==
    {NoContext,
     [teamId |-> Some(12), projectId |-> Some(305), deploymentName |-> Some("dev-owl-1")],
     [teamId |-> Some(12), projectId |-> None, deploymentName |-> None],
     [teamId |-> Some(14), projectId |-> Some(305), deploymentName |-> None],
     [teamId |-> Some(99), projectId |-> Some(305), deploymentName |-> Some("dev-owl-1")]}

\* The screen of the current render
CurrentScreen ==
    Screen(switchViewState, selectedTeam, selectedProject, selectedContext,
           teams, projects)

\* setSelectedContext(update): the fields of update replace those of the context
SetSelectedContext(context, update) ==
    [k \in DOMAIN context |-> IF k \in DOMAIN update THEN update[k] ELSE context[k]]

\* useProjects(accessToken, selectedTeam?.id ?? null): the data is that of the
\* selected team; when the team changes the hook either drops the data it holds
\* or keeps it until the projects of the new team arrive
UseProjects(team, projs, keeps) ==
    IF keeps \/ (team # None /\ projs = team) THEN projs ELSE None

\* The first restore effect: the team of the context, when the teams hold it
RestoreTeam(tms, context) ==
    IF tms # None /\ TruthyNum(context.teamId) /\ The(context.teamId) \in The(tms)
    THEN context.teamId ELSE None

\* The second restore effect: the project of the context, when the projects
\* that are loaded hold it
RestoreProject(projs, context) ==
    IF projs # None /\ TruthyNum(context.projectId)
       /\ The(context.projectId) \in ProjectsOf(The(projs))
    THEN context.projectId ELSE None

\* The render after a step: the effects whose dependencies changed run with the
\* values of that render, and useProjects follows the selected team
AfterEffects(prev, next, keeps) ==
    LET team == IF <<next.teams, next.selectedContext.teamId>>
                     # <<prev.teams, prev.selectedContext.teamId>>
                THEN RestoreTeam(next.teams, next.selectedContext) ELSE None
        project == IF <<next.projects, next.selectedContext.projectId>>
                        # <<prev.projects, prev.selectedContext.projectId>>
                   THEN RestoreProject(next.projects, next.selectedContext) ELSE None
        selTeam == IF team # None THEN team ELSE next.selectedTeam
    IN  [next EXCEPT !.selectedTeam = selTeam,
                     !.selectedProject = IF project # None THEN project ELSE @,
                     !.viewState = IF project # None THEN "deployments"
                                   ELSE IF team # None THEN "projects" ELSE @,
                     !.projects = UseProjects(selTeam, @, keeps)]

\* The state of the screen becomes s
Shows(s) ==
    /\ switchViewState' = s.viewState
    /\ selectedTeam' = s.selectedTeam
    /\ selectedProject' = s.selectedProject
    /\ selectedContext' = s.selectedContext
    /\ teams' = s.teams
    /\ projects' = s.projects

\* The handler or arrival `op` turned the screen into next
SwitchStep(op, team, project, deployment, next) ==
    /\ \E keeps \in BOOLEAN : Shows(AfterEffects(CurrentScreen, next, keeps))
    /\ switchOp' = [op |-> op, team |-> team, project |-> project,
                    deployment |-> deployment, before |-> CurrentScreen]
    /\ UNCHANGED <<authVars, logVars, browseVars, runnerVars>>

\* useConvexAuth has loaded the stored context
LoadContext(c) ==
    /\ ~contextLoaded
    /\ contextLoaded' = TRUE
    /\ SwitchStep("loadContext", None, None, None,
                  [CurrentScreen EXCEPT !.selectedContext = c])
    /\ UNCHANGED switchToast

\* The teams arrive
TeamsArrive ==
    /\ teams = None
    /\ SwitchStep("teamsArrive", None, None, None,
                  [CurrentScreen EXCEPT !.teams = Some(TeamIds)])
    /\ UNCHANGED <<contextLoaded, switchToast>>

\* The projects of the selected team arrive
ProjectsArrive ==
    /\ selectedTeam # None
    /\ projects # selectedTeam
    /\ SwitchStep("projectsArrive", None, None, None,
                  [CurrentScreen EXCEPT !.projects = selectedTeam])
    /\ UNCHANGED <<contextLoaded, switchToast>>

\* A team selection that keeps the project and deployment of the context
SelectTeamContext_KeepsLower(team, context) ==
    [teamId |-> Some(team), projectId |-> context.projectId,
     deploymentName |-> context.deploymentName]

\* The context handleSelectTeam passes to setSelectedContext
SelectTeamContext(team, context) ==
    [teamId |-> Some(team), projectId |-> None, deploymentName |-> None]

\* The context handleSelectProject passes to setSelectedContext
SelectProjectContext(project, team, context) ==
    [teamId |-> IF team # None THEN team ELSE context.teamId,
     projectId |-> Some(project), deploymentName |-> None]

\* The update handleSelectDeployment passes to setSelectedContext
SelectDeploymentContext(deployment) == [deploymentName |-> Some(deployment)]

\* handleSelectTeam(team)
HandleSelectTeam(team) ==
    /\ contextLoaded
    /\ switchViewState = "teams"
    /\ teams # None /\ team \in The(teams)
    /\ SwitchStep("selectTeam", Some(team), None, None,
                  [CurrentScreen EXCEPT
                     !.selectedTeam = Some(team),
                     !.selectedProject = None,
                     !.viewState = "projects",
                     !.selectedContext =
                        SetSelectedContext(@, SelectTeamContext(team, @))])
    /\ UNCHANGED <<contextLoaded, switchToast>>

\* handleSelectProject(project)
HandleSelectProject(project) ==
    /\ contextLoaded
    /\ switchViewState = "projects"
    /\ projects # None /\ project \in ProjectsOf(The(projects))
    /\ SwitchStep("selectProject", None, Some(project), None,
                  [CurrentScreen EXCEPT
                     !.selectedProject = Some(project),
                     !.viewState = "deployments",
                     !.selectedContext =
                        SetSelectedContext(@, SelectProjectContext(project,
                                                                   selectedTeam, @))])
    /\ UNCHANGED <<contextLoaded, switchToast>>

\* handleSelectDeployment(deployment)
HandleSelectDeployment(deployment) ==
    /\ contextLoaded
    /\ switchViewState = "deployments"
    /\ SwitchStep("selectDeployment", None, None, Some(deployment),
                  [CurrentScreen EXCEPT
                     !.selectedContext =
                        SetSelectedContext(@, SelectDeploymentContext(deployment))])
    /\ switchToast' = "Deployment Selected"
    /\ UNCHANGED contextLoaded

\* A Go Back that clears the team and leaves the projects view on screen
AfterGoBack_TeamClearedViewKept(s) ==
    IF s.viewState = "deployments"
    THEN [s EXCEPT !.selectedProject = None, !.viewState = "projects"]
    ELSE IF s.viewState = "projects"
    THEN [s EXCEPT !.selectedTeam = None]
    ELSE s

\* A Go Back that leaves the deployments view for the teams view
AfterGoBack_StraightToTeams(s) ==
    IF s.viewState = "deployments"
    THEN [s EXCEPT !.selectedProject = None, !.selectedTeam = None,
                   !.viewState = "teams"]
    ELSE IF s.viewState = "projects"
    THEN [s EXCEPT !.selectedTeam = None, !.viewState = "teams"]
    ELSE s

\* What handleGoBack makes of the screen
AfterGoBack(s) ==
    IF s.viewState = "deployments"
    THEN [s EXCEPT !.selectedProject = None, !.viewState = "projects"]
    ELSE IF s.viewState = "projects"
    THEN [s EXCEPT !.selectedTeam = None, !.viewState = "teams"]
    ELSE s

\* handleGoBack()
HandleGoBack ==
    /\ contextLoaded
    /\ SwitchStep("goBack", None, None, None, AfterGoBack(CurrentScreen))
    /\ UNCHANGED <<contextLoaded, switchToast>>

\* The Go Back to Teams action of the deployments view
GoBackToTeams ==
    /\ contextLoaded
    /\ switchViewState = "deployments"
    /\ SwitchStep("goBackToTeams", None, None, None,
                  [CurrentScreen EXCEPT !.selectedProject = None,
                                        !.selectedTeam = None,
                                        !.viewState = "teams"])
    /\ UNCHANGED <<contextLoaded, switchToast>>

NextSwitch ==
    \/ \E c \in StoredContexts : LoadContext(c)
    \/ TeamsArrive
    \/ ProjectsArrive
    \/ \E team \in TeamIds : HandleSelectTeam(team)
    \/ \E project \in ProjectsOf(12) \cup ProjectsOf(14) : HandleSelectProject(project)
    \/ \E deployment \in DeploymentNames : HandleSelectDeployment(deployment)
    \/ HandleGoBack
    \/ GoBackToTeams

SpecSwitch == Init /\ [][NextSwitch]_vars

----------------------------------------------------------------------------
(* Properties *)

\* The token requests, token responses and sleeps of the log, in order
IsPollStep(x) == IsTokenRequest(x) \/ IsTokenResponse(x) \/ IsSleep(x)

PollSteps(ev) == SelectSeq(ev, IsPollStep)

\* A direct call of pollForDeviceToken has settled
PollSettled == caller = "direct" /\ pc = "idle" /\ pollRet.status # "none"

\* C1 (as stated): when shouldStop is already true at the call, pollForDeviceToken
\* sends no request at all, not to the discovery endpoint and not to the token
\* endpoint, and returns null.
C1_StopBeforeFirstPollNoNetworkCall ==
    (opRet.op = "pollForDeviceToken" /\ opRet.arg = Some("true")) =>
        /\ Requests(events) = 0
        /\ PollSettled => (pollRet.status = "returned" /\ pollRet.tokens = None)

\* C1 (amended): when shouldStop is already true at the call, pollForDeviceToken
\* sends exactly one request, the discovery request, and no token request; it
\* returns null when discovery succeeds and throws the discovery error otherwise.
C1_StopBeforeFirstPollNoTokenRequest ==
    (opRet.op = "pollForDeviceToken" /\ opRet.arg = Some("true")) =>
        /\ TokenRequests(events) = 0
        /\ SelectSeq(events, IsRequest) = <<Req("discovery", opRet.at)>>
        /\ PollSettled =>
             /\ Len(events) = 2
             /\ IF events[2].detail = "ok"
                THEN pollRet.status = "returned" /\ pollRet.tokens = None
                ELSE pollRet = Threw("Failed to discover auth configuration: ", "500")

\* C1 witness: a call with the stop signal already raised and the deadline still
\* ahead has returned null.
C1_Witness ==
    /\ PollSettled
    /\ opRet.arg = Some("true")
    /\ The(auth).expires_in > 0
    /\ pollRet.status = "returned"
    /\ pollRet.tokens = None

\* C2 (as stated): when authenticate throws, this attempt has written no
\* access-token key (no partial session is persisted).
C2_FailedAuthPersistsNoSession ==
    (caller = "authenticate" /\ authRet.status = "threw") =>
        /\ \A i \in 1..Len(events) :
             ~(events[i].e = "setItem" /\ events[i].what = ACCESS_TOKEN)
        /\ store = storeBefore

\* C3: after clearSession has completed, loadSession returns null and
\* loadSelectedContext returns teamId, projectId and deploymentName all null.
C3_SignOutClearsSessionAndContext ==
    (opRet.op = "clearSession" /\ ~opRet.threw) =>
        /\ LoadSession(store) = None
        /\ LoadSelectedContext(store) =
             [teamId |-> None, projectId |-> None, deploymentName |-> None]

\* C3 witness: clearSession has completed on a store that held all six keys.
C3_Witness ==
    /\ opRet.op = "clearSession"
    /\ ~opRet.threw
    /\ DOMAIN storeBefore = STORAGE_KEYS

\* C4 (as stated): whichever removals of clearSession fail, the access token is
\* never left in storage with its expiry key removed, so that loadSession would
\* return a session isSessionExpired reports as valid.
C4_NoUsableHalfSession ==
    opRet.op = "clearSession" =>
        ~ /\ ACCESS_TOKEN \in DOMAIN store
          /\ TOKEN_EXPIRES_AT \in DOMAIN storeBefore
          /\ TOKEN_EXPIRES_AT \notin DOMAIN store
          /\ LoadSession(store) # None
          /\ ~IsSessionExpired(The(LoadSession(store)), now)

\* C5 (as stated): isSessionExpired(session) is true iff expiresAt is set (any
\* number, 0 included) and now > expiresAt - 300000.
C5_ExpiredIffSetAndPastMargin ==
    opRet.op = "isSessionExpired" =>
        LET s == The(opRet.arg)
        IN  The(opRet.value) =
              (IsSome(s.expiresAt) /\ opRet.at > The(s.expiresAt) - 300000)

\* The endpoint answers authorization_pending twice and then a token
PendingTwiceThenToken ==
    /\ Len(script) = 3
    /\ script[1] = TokenError("authorization_pending")
    /\ script[2] = TokenError("authorization_pending")
    /\ script[3].ok

\* Exactly three token requests, a sleep of the advertised interval between
\* consecutive ones, and the payload of the third response returned
ThreeRequestsThenToken ==
    LET steps == PollSteps(events)
    IN  /\ TokenRequests(events) = 3
        /\ [i \in 1..Len(steps) |-> steps[i].e] =
             <<"request", "response", "sleep", "request", "response", "sleep",
               "request", "response">>
        /\ \A i \in {3, 6} :
             /\ TruthyNum(The(auth).interval) =>
                  steps[i].ms = The(The(auth).interval) * 1000
             /\ steps[i].at = steps[i - 1].at + steps[i].ms
             /\ steps[i + 1].at = steps[i].at
        /\ pollRet.status = "returned"
        /\ pollRet.tokens = Some([access_token |-> script[3].access_token])

\* C6 (as stated): against an endpoint that answers authorization_pending twice
\* and then a token, a poll whose discovery succeeded, that was given no stop
\* signal and whose device code was still valid at the call (expires_in > 0)
\* makes exactly 3 token requests, sleeps the advertised interval between them
\* and returns the third response's payload.
C6_PendingTwiceThenTokenThreeRequests ==
    (PollSettled /\ PendingTwiceThenToken /\ opRet.arg = Some("absent")
       /\ events[2].detail = "ok" /\ The(auth).expires_in > 0) =>
        ThreeRequestsThenToken

\* C6 (amended): the same, provided the expires_in deadline has not elapsed when
\* the poll starts nor when either sleep ends, and the stop signal is not raised.
C6_PendingTwiceThenTokenBeforeDeadline ==
    (PollSettled /\ PendingTwiceThenToken /\ shouldStop # "true"
       /\ events[2].detail = "ok"
       /\ opRet.at < opRet.at + The(auth).expires_in * 1000
       /\ \A i \in 1..Len(events) :
            IsSleep(events[i]) =>
              events[i].at < opRet.at + The(auth).expires_in * 1000) =>
        ThreeRequestsThenToken

\* C6 witness: such a poll, with an advertised interval of 2 seconds, has
\* returned the token after its third request.
C6_Witness ==
    /\ PollSettled
    /\ PendingTwiceThenToken
    /\ The(auth).interval = Some(2)
    /\ TokenRequests(events) = 3
    /\ IsSome(pollRet.tokens)

\* C7: a token response expired_token is the last thing the poll does: it throws
\* "Authentication expired. Please try again." and no request or sleep follows.
C7_ExpiredTokenIsTerminal ==
    \A i \in 1..Len(events) :
        (IsTokenResponse(events[i]) /\ events[i].detail = "expired_token") =>
            /\ i = Len(events)
            /\ pc = "idle"
            /\ pollRet = Threw("Authentication expired. Please try again.", "")

\* C7 witness: the poll has thrown the expiry error on its third request.
C7_Witness ==
    /\ PollSettled
    /\ pollRet.msg = "Authentication expired. Please try again."
    /\ TokenRequests(events) = 3

\* C8: a token response access_denied makes the poll throw "Authentication was
\* denied.", and any other non-success response that is neither
\* authorization_pending, slow_down nor expired_token (a body that is no JSON
\* included) makes it throw "Authentication failed: <error or status>"; no
\* request and no sleep follows either.
C8_DeniedAndOtherErrorsAreTerminal ==
    \A i \in 1..Len(events) :
        (IsTokenResponse(events[i])
           /\ events[i].detail \notin
                {"ok", "authorization_pending", "slow_down", "expired_token"}) =>
            /\ i = Len(events)
            /\ pc = "idle"
            /\ pollRet = IF events[i].detail = "access_denied"
                         THEN Threw("Authentication was denied.", "")
                         ELSE Threw("Authentication failed: ", events[i].detail)

\* C8 witness: the poll has thrown the denial error after at least one sleep.
C8_Witness ==
    /\ PollSettled
    /\ pollRet.msg = "Authentication was denied."
    /\ Sleeps(events) >= 1

\* Within authenticate, the poll has ended with every token response so far a
\* "keep waiting" answer: the deadline has elapsed
DeadlineElapsedWhilePending ==
    /\ caller = "authenticate"
    /\ pollRet.status # "none"
    /\ pollRet.msg # "Failed to discover auth configuration: "
    /\ \A i \in 1..Len(events) :
         IsTokenResponse(events[i]) =>
           events[i].detail \in {"authorization_pending", "slow_down"}

\* C9 (as stated): when the expires_in deadline elapses while the server keeps
\* answering authorization_pending or slow_down, pollForDeviceToken itself fails
\* (throws), it does not return normally.
C9_DeadlineElapsedPollThrows ==
    DeadlineElapsedWhilePending => pollRet.status = "threw"

\* C9 (amended): when the deadline elapses, pollForDeviceToken returns null, a
\* normal return value; authenticate turns that null into the thrown error
\* "Authentication expired or cancelled", which ends the attempt with the store
\* untouched; and no token request is ever sent at or after the deadline.
C9_DeadlineElapsedReturnsNullAuthThrows ==
    /\ DeadlineElapsedWhilePending =>
         /\ now >= pollExpiresAt
         /\ pollRet.status = "returned"
         /\ pollRet.tokens = None
         /\ authRet = Threw("Authentication expired or cancelled", "")
         /\ pc = "idle"
         /\ store = storeBefore
    /\ \A i \in 1..Len(events) :
         IsTokenRequest(events[i]) => events[i].at < pollExpiresAt

\* C9 witness: authenticate has thrown that error after at least two token requests.
C9_Witness ==
    /\ DeadlineElapsedWhilePending
    /\ authRet.msg = "Authentication expired or cancelled"
    /\ TokenRequests(events) >= 2

\* C10: after a success response of the token endpoint no token request and no
\* sleep follows in the attempt, and the poll has returned that response's payload.
C10_SuccessExitsLoopImmediately ==
    \A i \in 1..Len(events) :
        (IsTokenResponse(events[i]) /\ events[i].detail = "ok") =>
            /\ \A j \in (i + 1)..Len(events) :
                 ~IsTokenRequest(events[j]) /\ ~IsSleep(events[j])
            /\ pollRet.status = "returned"
            /\ pollRet.tokens =
                 Some([access_token |->
                         Answer(script, TokenRequests(SubSeq(events, 1, i))).access_token])

\* C10 witness: an attempt whose second token request was answered with a token
\* has gone on to the exchange and finished.
C10_Witness ==
    /\ caller = "authenticate"
    /\ authRet.status = "returned"
    /\ TokenRequests(events) = 2
    /\ Sleeps(events) = 1

\* A "keep waiting" answer of the token endpoint
IsRetryResponse(x) ==
    IsTokenResponse(x) /\ x.detail \in {"authorization_pending", "slow_down"}

\* The interval the server suggested, in ms: 5 seconds when absent or 0
SuggestedIntervalMs ==
    IF The(auth).interval = None \/ The(auth).interval = Some(0)
    THEN 5000 ELSE The(The(auth).interval) * 1000

\* C11: every authorization_pending or slow_down answer is followed by exactly
\* one sleep, of the server-suggested interval (5 seconds when interval is absent
\* or 0), the same for every sleep of the attempt and after slow_down as after
\* authorization_pending; the loop's next iteration starts when the sleep ends,
\* and sends its token request then unless the deadline has elapsed or the stop
\* signal is raised; no sleep happens anywhere else.
C11_RetrySleepsOneFixedInterval ==
    /\ \A i \in 1..Len(events) :
         IsRetryResponse(events[i]) =>
           /\ i = Len(events) => pc = "pollSleep"
           /\ i < Len(events) =>
                events[i + 1] = Slept(SuggestedIntervalMs,
                                      events[i].at + SuggestedIntervalMs)
           /\ i + 1 = Len(events) =>
                /\ pc = "idle"
                /\ pollRet.status = "returned"
                /\ pollRet.tokens = None
                /\ events[i + 1].at >= pollExpiresAt \/ shouldStop = "true"
           /\ i + 1 < Len(events) =>
                /\ i + 3 <= Len(events)
                /\ events[i + 2].e = "onPoll"
                /\ events[i + 3] = Req("token", events[i + 1].at)
    /\ \A j \in 1..Len(events) :
         IsSleep(events[j]) => (j > 1 /\ IsRetryResponse(events[j - 1]))

\* C11 witness: a poll whose server suggested interval 0 was told slow_down,
\* slept 5 seconds and polled again.
C11_Witness ==
    /\ caller = "direct"
    /\ The(auth).interval = Some(0)
    /\ \E i \in 1..Len(events) :
         /\ IsTokenResponse(events[i])
         /\ events[i].detail = "slow_down"
         /\ i + 3 <= Len(events)
         /\ events[i + 1].ms = 5000
         /\ IsTokenRequest(events[i + 3])

\* pollForDeviceToken has returned null
ReturnedNull(ret) == ret.status = "returned" /\ ret.tokens = None

\* C12: the stop signal is consulted once per iteration, at its head and before
\* its token request.  A token request is sent only by an iteration whose check
\* found the signal not raised; an iteration that finds it raised (after a
\* successful discovery or after a sleep that ran its full interval) sends no
\* token request and makes the poll return null, not throw; and a signal raised
\* while a request is in flight does not touch that request: its response is
\* received and handled as usual (a token is returned, a "keep waiting" answer
\* starts the sleep, an error is thrown).
C12_StopCheckedOncePerIterationBeforeRequest ==
    [][caller = "direct" =>
         /\ TokenRequests(events') > TokenRequests(events) => shouldStop # "true"
         /\ (shouldStop = "true" /\ pc = "pollSleep") =>
              /\ events' = Append(events, Slept(pollInterval, now + pollInterval))
              /\ now' = now + pollInterval
              /\ pc' = "idle"
              /\ ReturnedNull(pollRet')
         /\ (shouldStop = "true" /\ pc = "pollDiscover"
               /\ events'[Len(events')].detail = "ok") =>
              /\ Len(events') = Len(events) + 1
              /\ pc' = "idle"
              /\ ReturnedNull(pollRet')
         /\ (shouldStop = "true" /\ pc = "pollFetch") =>
              LET last == events'[Len(events')]
              IN  /\ Len(events') = Len(events) + 1
                  /\ IsTokenResponse(last)
                  /\ last.detail = "ok" =>
                       (pc' = "idle" /\ pollRet'.status = "returned"
                          /\ IsSome(pollRet'.tokens))
                  /\ IsRetryResponse(last) =>
                       (pc' = "pollSleep" /\ pollRet' = pollRet)
                  /\ (last.detail # "ok" /\ ~IsRetryResponse(last)) =>
                       (pc' = "idle" /\ pollRet'.status = "threw"
                          /\ pollRet'.detail \in {"", last.detail})
    ]_vars

\* C12 witness: a signal raised after the call, during a request or a sleep, has
\* ended the poll with null at the head of a later iteration, the deadline being
\* still ahead.
C12_Witness ==
    /\ PollSettled
    /\ opRet.arg = Some("false")
    /\ shouldStop = "true"
    /\ TokenRequests(events) >= 1
    /\ IsSleep(events[Len(events)])
    /\ events[Len(events)].at < pollExpiresAt
    /\ ReturnedNull(pollRet)

\* The log holds an entry of kind e (and target what) before position i
Earlier(ev, i, e, what) ==
    \E j \in 1..(i - 1) : ev[j].e = e /\ ev[j].what = what

\* C13: in an attempt of authenticate the device-authorization request is sent
\* only right after a successful discovery response; the browser is opened only
\* right after a successful device-authorization response, and polling (the
\* discovery request of pollForDeviceToken, and every token request) starts only
\* after the browser was opened; the exchange request is sent only right after a
\* token response that carried a token, and saveSession writes only after a
\* successful exchange response; and a non-success status at the first discovery
\* or at the device-authorization request ends the attempt there: authenticate
\* throws that error and nothing is requested, opened or written afterwards.
C13_StagesInOrder ==
    caller = "authenticate" =>
      /\ Len(events) >= 1 /\ events[1] = Req("discovery", opRet.at)
      /\ \A i \in 1..Len(events) :
           LET x == events[i]
           IN  /\ (x.e = "request" /\ x.what = "device") =>
                    (i = 3 /\ events[2] = Resp("discovery", "ok", events[2].at))
               /\ x.e = "open" =>
                    (i = 5 /\ events[4] = Resp("device", "ok", events[4].at)
                       /\ IsSome(auth))
               /\ (x.e = "request" /\ x.what = "discovery" /\ i > 1) =>
                    (i = 6 /\ events[5].e = "open")
               /\ IsTokenRequest(x) =>
                    (i > 7 /\ events[7] = Resp("discovery", "ok", events[7].at))
               /\ (x.e = "request" /\ x.what = "exchange") =>
                    (IsTokenResponse(events[i - 1]) /\ events[i - 1].detail = "ok"
                       /\ IsSome(pollRet.tokens))
               /\ x.e = "setItem" =>
                    (Earlier(events, i, "request", "exchange")
                       /\ \E j \in 1..(i - 1) :
                            events[j] = Resp("exchange", "ok", events[j].at))
               /\ (x.e = "response" /\ x.what \in {"discovery", "device"}
                     /\ x.detail # "ok") =>
                    /\ i = Len(events)
                    /\ pc = "idle"
                    /\ authRet.status = "threw"
                    /\ authRet.detail = x.detail
                    /\ authRet.msg = (IF x.what = "discovery"
                                      THEN "Failed to discover auth configuration: "
                                      ELSE "Failed to start device authorization: ")
                    /\ store = storeBefore

\* C13 witness: an attempt has gone through every stage and saved its session.
C13_Witness ==
    /\ caller = "authenticate"
    /\ pc = "idle"
    /\ authRet.status = "returned"
    /\ \E i \in 1..Len(events) : events[i].e = "setItem"
    /\ LoadSession(store) # None

\* C14 (as stated): after a saveSelectedContext call that completed (here with
\* a teamId that is null or non-zero), loadSelectedContext returns exactly the
\* context passed to that call, null fields included, whatever calls came before
\* and whatever session keys are stored.
C14_LoadReturnsLastSavedContext ==
    (opRet.op = "saveSelectedContext" /\ ~opRet.threw
       /\ The(opRet.arg).teamId # Some(0)) =>
        LoadSelectedContext(store) = The(opRet.arg)

\* C15 (as stated): exchangeForDashboardToken returns a session whose accessToken
\* and refreshToken are the response's, whose tokenType is the response's or
\* "Bearer" when absent, and whose expiresAt is now + expiresAt * 1000 whenever
\* the response carries expiresAt (0 included) and undefined otherwise; on a
\* non-success status it throws and returns no session.
C15_ExchangeBuildsSessionFromResponse ==
    opRet.op = "exchangeForDashboardToken" =>
        IF opRet.threw THEN opRet.value = None
        ELSE LET data == The(opRet.arg)
                 s == The(opRet.value)
             IN  /\ s.accessToken = data.accessToken
                 /\ s.refreshToken = data.refreshToken
                 /\ s.tokenType = (IF IsSome(data.tokenType)
                                   THEN The(data.tokenType) ELSE "Bearer")
                 /\ s.expiresAt = (IF IsSome(data.expiresAt)
                                   THEN Some(opRet.at + The(data.expiresAt) * 1000)
                                   ELSE None)

\* The last step of the poller was a fetch that succeeded and was merged
MergedFetch == logOp.op = "settle" /\ logOp.ok /\ ~logOp.discarded

\* C16: whatever fetches a polling session has merged, overlapping or not, the
\* buffer holds each id once and is ordered newest-first by timestamp; and a
\* merge keeps every entry the buffer held and adds every entry of the result.
C16_BufferDistinctIdsNewestFirst ==
    /\ \A i \in 1..Len(logs) : \A j \in 1..Len(logs) :
         i < j => /\ logs[i].id # logs[j].id
                  /\ logs[i].timestamp >= logs[j].timestamp
    /\ MergedFetch =>
         /\ IdsOf(logs) = IdsOf(logOp.logsBefore) \cup IdsOf(logOp.result)
         /\ \A i \in 1..Len(logs) : logs[i] = LogEntryOf(logs[i].id)

\* C16 witness: a fetch result that held an entry of the buffer again, next to
\* a newer one, has been merged.
C16_Witness ==
    /\ MergedFetch
    /\ IdsOf(logOp.result) \cap IdsOf(logOp.logsBefore) # {}
    /\ IdsOf(logOp.result) \ IdsOf(logOp.logsBefore) # {}
    /\ Len(logs) >= 2

\* C17: a fetch that fails leaves the buffer as it was and sets the error the
\* caller is shown; it does not stop the timer: after the failed fetch of a tick
\* the next tick is scheduled as long as streaming is enabled, a failed refresh
\* leaves the timer alone, and at any time of a session with streaming enabled a
\* tick is either scheduled or has its fetch in flight, whatever failed before.
C17_FailedFetchKeepsBufferAndTimer ==
    /\ (logOp.op = "settle" /\ ~logOp.ok) =>
         /\ logs = logOp.logsBefore
         /\ fetchError = Some("FetchError")
         /\ (logOp.kind = "tick" /\ isStreaming) => timer = "scheduled"
         /\ logOp.kind = "refresh" => timer = logOp.timerBefore
    /\ (started /\ isStreaming) =>
         (timer = "scheduled" \/ InFlight(inflight, "tick") # {})

\* C17 witness: the fetch of a tick has failed over a buffer that held entries,
\* and the next tick is scheduled.
C17_Witness ==
    /\ logOp.op = "settle"
    /\ ~logOp.ok
    /\ logOp.kind = "tick"
    /\ Len(logs) >= 2
    /\ isStreaming
    /\ timer = "scheduled"

C19_ClearLogsKeepsStreaming ==
    /\ logOp.op = "clearLogs" =>
         /\ logs = <<>>
         /\ isStreaming = logOp.streamingBefore
         /\ timer = logOp.timerBefore
         /\ inflight = logOp.inflightBefore
         /\ isStreaming => (timer = "scheduled" \/ InFlight(inflight, "tick") # {})
    /\ (logOp.op = "tick" /\ logOp.afterClear) =>
         /\ logOp.streamingBefore
         /\ inflight = Append(logOp.inflightBefore,
                              Fetch("tick", Cursor(logOp.logsBefore), TRUE))
    /\ (MergedFetch /\ logOp.kind = "tick" /\ logOp.afterClear) =>
         /\ IdsOf(logOp.result) \subseteq IdsOf(logs)
         /\ Len(logs) = Cardinality(IdsOf(logOp.logsBefore) \cup IdsOf(logOp.result))

\* C19 witness: the first tick after a clearLogs() that emptied the buffer has
\* found the buffer empty and repopulated it with two entries.
C19_Witness ==
    /\ MergedFetch
    /\ logOp.kind = "tick"
    /\ logOp.afterClear
    /\ logOp.logsBefore = <<>>
    /\ Len(logs) >= 2

\* C20: toggleStreaming() flips the streaming flag and leaves the buffer and the
\* fetches in flight as they were, in either direction; while the flag is
\* disabled the timer is suspended, and the fetch of a tick is only ever issued
\* with the flag enabled.
C20_ToggleFlipsFlagKeepsBuffer ==
    /\ logOp.op = "toggleStreaming" =>
         /\ isStreaming = ~logOp.streamingBefore
         /\ logs = logOp.logsBefore
         /\ inflight = logOp.inflightBefore
    /\ ~isStreaming => timer = "none"
    /\ logOp.op = "tick" => (logOp.streamingBefore /\ isStreaming)

\* C20 witness: streaming has been paused with a tick pending and entries in the
\* buffer, which are still there.
C20_Witness ==
    /\ logOp.op = "toggleStreaming"
    /\ ~isStreaming
    /\ logOp.timerBefore = "scheduled"
    /\ Len(logs) >= 2

\* C21: a call of refresh() issues exactly one fetch at once, with streaming
\* enabled or disabled, and stays pending exactly as long as that fetch is in
\* flight; the "Logs refreshed" toast is shown only by the step in which the
\* fetch of a Refresh Logs action settles, never by the call itself nor by any
\* other step, and a refresh whose fetch succeeded always shows it.
C21_RefreshToastOnlyAfterFetchSettled ==
    /\ logOp.op = "refresh" =>
         /\ inflight = Append(logOp.inflightBefore, inflight[Len(inflight)])
         /\ inflight[Len(inflight)].kind = "refresh"
         /\ awaiters[Len(awaiters)] = logOp.awaiter
         /\ isStreaming = logOp.streamingBefore
         /\ ~logOp.toast
    /\ Len(awaiters) = Len(inflight)
    /\ \A i \in 1..Len(inflight) :
         (awaiters[i] \in RefreshCallers) = (inflight[i].kind = "refresh")
    /\ logOp.toast =>
         /\ logOp.op = "settle"
         /\ logOp.kind = "refresh"
         /\ logOp.awaiter = "action"
         /\ Len(inflight) = Len(logOp.inflightBefore) - 1
         /\ logToast = "Logs refreshed"
    /\ (logOp.op = "settle" /\ logOp.ok /\ logOp.awaiter = "action") => logOp.toast
    /\ logToast = "Logs refreshed" =>
         (logOp.op # "none" /\ logOp.op # "start")

\* C21 witness: with streaming disabled, the fetch of a Refresh Logs action has
\* settled and the toast is shown.
C21_Witness ==
    /\ logOp.op = "settle"
    /\ logOp.kind = "refresh"
    /\ logOp.toast
    /\ ~isStreaming
    /\ logToast = "Logs refreshed"


\* C22 (as stated): after a saveSession(s) call that completed (here with an
\* expiresAt that is absent or non-zero), loadSession returns a session with the
\* accessToken, expiresAt and refreshToken of s, whatever the store held before,
\* the expiry and refresh token of an earlier session included.
C22_LoadSessionReturnsSavedSession ==
    (opRet.op = "saveSession" /\ ~opRet.threw
       /\ The(opRet.arg).expiresAt # Some(0)) =>
        /\ LoadSession(store) # None
        /\ The(LoadSession(store)).accessToken = The(opRet.arg).accessToken
        /\ The(LoadSession(store)).expiresAt = The(opRet.arg).expiresAt
        /\ The(LoadSession(store)).refreshToken = The(opRet.arg).refreshToken


\* The poll intervals that fit in expires_in
IntervalsIn(a, interval) == (a.expires_in * 1000) \div interval

\* C23: pollForDeviceToken always terminates. Once called it eventually returns
\* or throws, whatever the token endpoint answers (authorization_pending for
\* ever included); no token request is sent at or after the deadline, and the
\* number of token requests is at most the number of poll intervals that fit in
\* expires_in, plus one.
C23_PollTerminatesWithBoundedRequests ==
    /\ [](\A i \in 1..Len(events) :
            IsTokenRequest(events[i]) => events[i].at < pollExpiresAt)
    /\ []((auth # None /\ pollInterval > 0) =>
            TokenRequests(events) <= IntervalsIn(The(auth), pollInterval) + 1)
    /\ (pc # "idle") ~> (pc = "idle" /\ pollRet.status # "none")

\* The endpoint answered authorization_pending beyond its script until the
\* deadline passed, and the poll returned null
C23_Witness ==
    /\ pc = "idle"
    /\ pollRet.status = "returned"
    /\ pollRet.tokens = None
    /\ shouldStop # "true"
    /\ TokenRequests(events) > MaxScriptLen
    /\ now >= pollExpiresAt


\* C24 (as stated): in Browse Tables the document list belongs to the current
\* selection: in the tables view documents is empty and nextCursor is unset, and
\* in the documents view every listed document is one of the selected table.
C24_DocumentsBelongToSelection ==
    /\ viewState = "tables" => (documents = <<>> /\ nextCursor = None)
    /\ viewState = "documents" =>
         \A i \in 1..Len(documents) : Some(documents[i].table) = selectedTable

\* C25 (as stated): loadMore never appends a page twice: within one selection no
\* cursor is requested by two loadMore calls in flight, and no document is listed
\* twice.
C25_LoadMoreAppendsEachPageOnce ==
    /\ \A i, j \in 1..Len(docFetches) :
         (i # j /\ docFetches[i].kind = "more" /\ docFetches[j].kind = "more"
            /\ docFetches[i].sel = docFetches[j].sel) =>
           docFetches[i].cursor # docFetches[j].cursor
    /\ \A i, j \in 1..Len(documents) : i # j => documents[i] # documents[j]


\* An executeFunction call is awaiting runFunction
SomeRunInFlight == \E i \in 1..Len(executions) : executions[i].stage = "run"

\* C26 (as stated): in FunctionRunner result and error are never both set, both
\* are null while a run is in flight, and isRunning is true exactly while some
\* executeFunction call has not finished.
C26_ResultAndErrorExclusive ==
    /\ ~(runResult # None /\ runError # None)
    /\ SomeRunInFlight => (runResult = None /\ runError = None)
    /\ isRunning = (executions # <<>>)

\* C30: handleSubmit of the ArgumentsForm. Text that JSON.parse rejects sets the
\* parse error "Invalid JSON format", leaves the form on screen and starts no
\* execution; text it accepts clears the parse error, pops the form and then
\* calls onSubmit once, with the parsed value; a change of the text clears the
\* parse error.
C30_SubmitParsesBeforeRunning ==
    /\ (formOp.op = "submit" /\ JsonParse(formOp.text) = None) =>
         /\ parseError = Some("Invalid JSON format")
         /\ formShown
         /\ ~Does(formOp.steps, "pop") /\ ~Does(formOp.steps, "onSubmit")
         /\ executions = formOp.executionsBefore
    /\ (formOp.op = "submit" /\ JsonParse(formOp.text) # None) =>
         /\ parseError = None
         /\ ~formShown
         /\ SelectSeq(formOp.steps, LAMBDA s : s \in {"pop", "onSubmit"})
              = <<"pop", "onSubmit">>
         /\ executions = Append(formOp.executionsBefore,
                                Execution(The(JsonParse(formOp.text)), "run"))
    /\ formOp.op = "change" => (parseError = None /\ argsJson = formOp.text)

\* Text that is not JSON was submitted, while an earlier run was in flight
C30_Witness ==
    /\ formOp.op = "submit"
    /\ formOp.text # <<>>
    /\ JsonParse(formOp.text) = None
    /\ parseError # None
    /\ executions # <<>>


C28_SelectionClearsLowerLevels ==
    /\ switchOp.op = "selectTeam" =>
         /\ selectedContext = [teamId |-> switchOp.team, projectId |-> None,
                               deploymentName |-> None]
         /\ selectedTeam = switchOp.team
         /\ selectedProject = None
         /\ switchViewState = "projects"
    /\ switchOp.op = "selectProject" =>
         /\ selectedContext.projectId = switchOp.project
         /\ selectedContext.deploymentName = None
         /\ selectedContext.teamId = switchOp.before.selectedTeam
         /\ selectedProject = switchOp.project
         /\ switchViewState = "deployments"
    /\ switchOp.op = "selectDeployment" =>
         /\ selectedContext.deploymentName = switchOp.deployment
         /\ selectedContext.teamId = switchOp.before.selectedContext.teamId
         /\ selectedContext.projectId = switchOp.before.selectedContext.projectId
         /\ switchViewState = switchOp.before.viewState
         /\ selectedTeam = switchOp.before.selectedTeam
         /\ selectedProject = switchOp.before.selectedProject

\* A team was selected while the context held a project and a deployment
C28_Witness ==
    /\ switchOp.op = "selectTeam"
    /\ switchOp.before.selectedContext.projectId # None
    /\ switchOp.before.selectedContext.deploymentName # None
    /\ selectedContext.projectId = None

\* C29: handleGoBack moves one level up and never changes the selected
\* context: from the deployments it clears the selected project and shows the
\* projects, the team kept; from the projects it clears the selected team and
\* shows the teams; from the teams it changes nothing.
C29_GoBackOneLevelContextKept ==
    switchOp.op = "goBack" =>
        /\ selectedContext = switchOp.before.selectedContext
        /\ switchOp.before.viewState = "deployments" =>
             /\ switchViewState = "projects"
             /\ selectedProject = None
             /\ selectedTeam = switchOp.before.selectedTeam
        /\ switchOp.before.viewState = "projects" =>
             /\ switchViewState = "teams"
             /\ selectedTeam = None
             /\ selectedProject = switchOp.before.selectedProject
        /\ switchOp.before.viewState = "teams" =>
             /\ switchViewState = "teams"
             /\ selectedTeam = switchOp.before.selectedTeam
             /\ selectedProject = switchOp.before.selectedProject

\* Go Back from the deployments of a stored selection, which stays selected
C29_Witness ==
    /\ switchOp.op = "goBack"
    /\ switchOp.before.viewState = "deployments"
    /\ switchViewState = "projects"
    /\ selectedContext.deploymentName # None

====
